---- MODULE Spec2Model ----
(***************************************************************************)
(* A model of md2hwpx (src/md2hwpx/MarkdownToHwpx.py): the template        *)
(* introspector, the style registry with its derivation caches, the block  *)
(* emitter and the container writer.                                       *)
(*                                                                         *)
(* The converter is single threaded.  Each subsystem is modelled by its    *)
(* own group of variables and its own specification; a specification       *)
(* leaves the variables of the other groups at their idle value.           *)
(*                                                                         *)
(* Text is modelled as a sequence of one-character tokens.  The Korean     *)
(* syllables are written with their romanised names ("ga" is U+AC00).      *)
(***************************************************************************)
EXTENDS Integers, Sequences, FiniteSets, TLC

VARIABLES
    fmt,           \* counter formatting: the template text, the counter, the result
    tpl,           \* introspection: the paragraph properties and styles of header.xml
    intro,         \* introspection: its position, its outcome and what followed it
    header_root,   \* the header XML tree: its collections, their itemCnt, the styles
    registry,      \* max_char_pr_id, max_para_pr_id, the caches, the Normal style ids
    body,          \* the references the emitted body carries, and the conversion's position
    char_pr_calls, \* every key _get_char_pr_id was called with: the ids returned, the nodes appended
    list_styles,   \* the list placeholders of the template, keyed by (type, 1-based level)
    lst,           \* the list handlers on the call stack, and how far the walk of the lists is
    blk,           \* block dispatch: the handlers on the call stack, _has_emitted_block, what was emitted
    images,        \* self.images: the id, path and extension of every image to embed
    img,           \* the image handler: its configuration, the clock, what the body carries
    ref_zip,       \* the entries of the reference HWPX
    out_zip,       \* the entries of the output HWPX
    pfx,           \* one prefix-mode list: its start, its items, the prefixes emitted
    lnk,           \* hyperlink fields: the clock, last_field_id, the inlines open, the runs emitted
    nrm,           \* the Normal style of the template, its character shape, the outcome of the check
    skp,           \* unhandled nodes: where the walk is, and the conversion of the document without them
    rd,            \* convert_to_hwpx: the template given, how far the call is, what it raised or wrote
    cfg,           \* the config argument, the config of the converter, the settings the handlers read
    hdc,           \* header numbering: the H placeholders, header_counters, the headers handled
    drv,           \* the last call of _get_char_pr_id: its key, the id it returned
    tab,           \* one table: its column specs and widths, the occupied positions, the cells emitted
    inj,           \* convert(): the body _process_blocks returned, the body convert returns
    scn,           \* the text nodes of the template's section and what the placeholder scans installed
    sz,            \* one image: its parsed attributes, the pixel size of its file, the size emitted
    out,           \* convert_to_hwpx: the phase it is in, the file at the output path
    thd            \* the table placeholder of H1: its stored table, the headers emitted from it

counterVars == <<fmt>>

outlineVars == <<tpl, intro>>

styleVars == <<header_root, registry, body, char_pr_calls>>

listVars == <<list_styles, lst>>

blockVars == <<blk>>

imageVars == <<images, img, ref_zip, out_zip>>

prefixVars == <<pfx>>

linkVars == <<lnk>>

normalVars == <<nrm>>

skipVars == <<skp>>

readVars == <<rd>>

configVars == <<cfg>>

headerCountVars == <<hdc>>

deriveVars == <<drv>>

tableVars == <<tab>>

injectVars == <<inj>>

scanVars == <<scn>>

sizeVars == <<sz>>

outputVars == <<out>>

tableHeaderVars == <<thd>>

vars == <<counterVars, outlineVars, styleVars, listVars, blockVars, imageVars, prefixVars, linkVars, normalVars, skipVars, readVars, configVars, headerCountVars, deriveVars, tableVars, injectVars, scanVars, sizeVars, outputVars, tableHeaderVars>>

\* What an action of one group leaves alone in the other groups.
notCounterVars == <<outlineVars, styleVars, listVars, blockVars, imageVars, prefixVars, linkVars, normalVars, skipVars, readVars, configVars, headerCountVars, deriveVars, tableVars, injectVars, scanVars, sizeVars, outputVars, tableHeaderVars>>

notOutlineVars == <<counterVars, styleVars, listVars, blockVars, imageVars, prefixVars, linkVars, normalVars, skipVars, readVars, configVars, headerCountVars, deriveVars, tableVars, injectVars, scanVars, sizeVars, outputVars, tableHeaderVars>>

notStyleVars == <<counterVars, outlineVars, listVars, blockVars, imageVars, prefixVars, linkVars, normalVars, skipVars, readVars, configVars, headerCountVars, deriveVars, tableVars, injectVars, scanVars, sizeVars, outputVars, tableHeaderVars>>

\* the list handlers write the header tree and the body as well
notListVars == <<counterVars, outlineVars, blockVars, imageVars, prefixVars, linkVars, normalVars, skipVars, readVars, configVars, headerCountVars, deriveVars, tableVars, injectVars, scanVars, sizeVars, outputVars, tableHeaderVars>>

notBlockVars == <<counterVars, outlineVars, styleVars, listVars, imageVars, prefixVars, linkVars, normalVars, skipVars, readVars, configVars, headerCountVars, deriveVars, tableVars, injectVars, scanVars, sizeVars, outputVars, tableHeaderVars>>

notImageVars == <<counterVars, outlineVars, styleVars, listVars, blockVars, prefixVars, linkVars, normalVars, skipVars, readVars, configVars, headerCountVars, deriveVars, tableVars, injectVars, scanVars, sizeVars, outputVars, tableHeaderVars>>

notPrefixVars == <<counterVars, outlineVars, styleVars, listVars, blockVars, imageVars, linkVars, normalVars, skipVars, readVars, configVars, headerCountVars, deriveVars, tableVars, injectVars, scanVars, sizeVars, outputVars, tableHeaderVars>>

notLinkVars == <<counterVars, outlineVars, styleVars, listVars, blockVars, imageVars, prefixVars, normalVars, skipVars, readVars, configVars, headerCountVars, deriveVars, tableVars, injectVars, scanVars, sizeVars, outputVars, tableHeaderVars>>

notNormalVars == <<counterVars, outlineVars, styleVars, listVars, blockVars, imageVars, prefixVars, linkVars, skipVars, readVars, configVars, headerCountVars, deriveVars, tableVars, injectVars, scanVars, sizeVars, outputVars, tableHeaderVars>>

\* the handlers walked write the header tree and the body as well
notSkipVars == <<counterVars, outlineVars, listVars, blockVars, imageVars, prefixVars, linkVars, normalVars, readVars, configVars, headerCountVars, deriveVars, tableVars, injectVars, scanVars, sizeVars, outputVars, tableHeaderVars>>

notReadVars == <<counterVars, outlineVars, styleVars, listVars, blockVars, imageVars, prefixVars, linkVars, normalVars, skipVars, configVars, headerCountVars, deriveVars, tableVars, injectVars, scanVars, sizeVars, outputVars, tableHeaderVars>>

notConfigVars == <<counterVars, outlineVars, styleVars, listVars, blockVars, imageVars, prefixVars, linkVars, normalVars, skipVars, readVars, headerCountVars, deriveVars, tableVars, injectVars, scanVars, sizeVars, outputVars, tableHeaderVars>>

notHeaderCountVars == <<counterVars, outlineVars, styleVars, listVars, blockVars, imageVars, prefixVars, linkVars, normalVars, skipVars, readVars, configVars, deriveVars, tableVars, injectVars, scanVars, sizeVars, outputVars, tableHeaderVars>>

\* the derivation writes the header tree and the registry as well
notDeriveVars == <<counterVars, outlineVars, listVars, blockVars, imageVars, prefixVars, linkVars, normalVars, skipVars, readVars, configVars, headerCountVars, tableVars, injectVars, scanVars, sizeVars, outputVars, tableHeaderVars>>

notTableVars == <<counterVars, outlineVars, styleVars, listVars, blockVars, imageVars, prefixVars, linkVars, normalVars, skipVars, readVars, configVars, headerCountVars, deriveVars, injectVars, scanVars, sizeVars, outputVars, tableHeaderVars>>

notInjectVars == <<counterVars, outlineVars, styleVars, listVars, blockVars, imageVars, prefixVars, linkVars, normalVars, skipVars, readVars, configVars, headerCountVars, deriveVars, tableVars, scanVars, sizeVars, outputVars, tableHeaderVars>>

notScanVars == <<counterVars, outlineVars, styleVars, listVars, blockVars, imageVars, prefixVars, linkVars, normalVars, skipVars, readVars, configVars, headerCountVars, deriveVars, tableVars, injectVars, sizeVars, outputVars, tableHeaderVars>>

notSizeVars == <<counterVars, outlineVars, styleVars, listVars, blockVars, imageVars, prefixVars, linkVars, normalVars, skipVars, readVars, configVars, headerCountVars, deriveVars, tableVars, injectVars, scanVars, outputVars, tableHeaderVars>>

notOutputVars == <<counterVars, outlineVars, styleVars, listVars, blockVars, imageVars, prefixVars, linkVars, normalVars, skipVars, readVars, configVars, headerCountVars, deriveVars, tableVars, injectVars, scanVars, sizeVars, tableHeaderVars>>

notTableHeaderVars == <<counterVars, outlineVars, styleVars, listVars, blockVars, imageVars, prefixVars, linkVars, normalVars, skipVars, readVars, configVars, headerCountVars, deriveVars, tableVars, injectVars, scanVars, sizeVars, outputVars>>

\* ---------------------------------------------------------------------
\* General helpers
\* ---------------------------------------------------------------------

Range(s) == {s[i] : i \in 1..Len(s)}

\* s[a..b] as Python slices s[a-1:b]; empty when b < a.
Slice(s, a, b) == IF b < a THEN <<>> ELSE SubSeq(s, a, b)

\* ---------------------------------------------------------------------
\* Counter formatting (_format_counter_text)
\* ---------------------------------------------------------------------

Whitespace == {" "}

Digits == <<"0", "1", "2", "3", "4", "5", "6", "7", "8", "9">>

IsDigit(c) == c \in Range(Digits)

RECURSIVE LStrip(_)
LStrip(s) == IF s # <<>> /\ Head(s) \in Whitespace THEN LStrip(Tail(s)) ELSE s

RECURSIVE RStrip(_)
RStrip(s) ==
    IF s # <<>> /\ s[Len(s)] \in Whitespace THEN RStrip(SubSeq(s, 1, Len(s) - 1)) ELSE s

\* str.strip()
Strip(s) == RStrip(LStrip(s))

\* str(counter) for a counter >= 0
RECURSIVE ToStr(_)
ToStr(n) == IF n < 10 THEN <<Digits[n + 1]>> ELSE ToStr(n \div 10) \o <<Digits[(n % 10) + 1]>>

\* s.startswith(p) at position i (1-based)
MatchAt(s, p, i) == i + Len(p) - 1 <= Len(s) /\ SubSeq(s, i, i + Len(p) - 1) = p

\* str.replace(old, new): every non-overlapping occurrence, left to right
RECURSIVE Replace(_, _, _)
Replace(s, old, new) ==
    IF s = <<>> THEN <<>>
    ELSE IF old # <<>> /\ MatchAt(s, old, 1)
         THEN new \o Replace(Slice(s, Len(old) + 1, Len(s)), old, new)
         ELSE <<Head(s)>> \o Replace(Tail(s), old, new)

roman_upper ==
    << <<"I">>, <<"I", "I">>, <<"I", "I", "I">>, <<"I", "V">>, <<"V">>,
       <<"V", "I">>, <<"V", "I", "I">>, <<"V", "I", "I", "I">>, <<"I", "X">>, <<"X">>,
       <<"X", "I">>, <<"X", "I", "I">>, <<"X", "I", "I", "I">>, <<"X", "I", "V">>,
       <<"X", "V">>, <<"X", "V", "I">>, <<"X", "V", "I", "I">>,
       <<"X", "V", "I", "I", "I">>, <<"X", "I", "X">>, <<"X", "X">> >>

LowerChar(c) == CASE c = "I" -> "i" [] c = "V" -> "v" [] c = "X" -> "x" [] OTHER -> c

Lower(s) == [i \in 1..Len(s) |-> LowerChar(s[i])]

roman_lower == [i \in 1..Len(roman_upper) |-> Lower(roman_upper[i])]

korean_jamo ==
    <<"ga", "na", "da", "ra", "ma", "ba", "sa", "a", "ja", "cha", "ka", "ta", "pa", "ha">>

\* The character class [ga-ha] of the regular expression: every syllable from
\* U+AC00 to U+D558.  "gak" (U+AC01) and "je" (U+C81C) lie inside the range
\* without being one of the fourteen; "hi" (U+D788) lies beyond it.
KoreanRange == Range(korean_jamo) \cup {"gak", "je"}

\* Python's table[counter - 1]: a negative index counts from the end.
PyIndex(table, idx) == IF idx < 0 THEN table[Len(table) + idx + 1] ELSE table[idx + 1]

RomanResult(table, counter) ==
    IF counter <= Len(table) THEN PyIndex(table, counter - 1) ELSE ToStr(counter)

\* re.search(r'\d+'): position of the first digit, 0 when there is none
FirstDigit(s) ==
    IF \E i \in 1..Len(s) : IsDigit(s[i])
    THEN CHOOSE i \in 1..Len(s) : IsDigit(s[i]) /\ \A j \in 1..(i - 1) : ~IsDigit(s[j])
    ELSE 0

\* last position of the run of digits that starts at i
DigitRunEnd(s, i) ==
    CHOOSE e \in i..Len(s) :
        /\ \A j \in i..e : IsDigit(s[j])
        /\ (e = Len(s) \/ ~IsDigit(s[e + 1]))

\* re.sub(r'\d+', str(counter), template_text, count=1)
SubFirstDigits(s, counter) ==
    LET i == FirstDigit(s)
        e == DigitRunEnd(s, i)
    IN  Slice(s, 1, i - 1) \o ToStr(counter) \o Slice(s, e + 1, Len(s))

\* re.search(r'[ga-ha]'): position of the first syllable in the range, 0 when none
FirstKorean(s) ==
    IF \E i \in 1..Len(s) : s[i] \in KoreanRange
    THEN CHOOSE i \in 1..Len(s) :
            s[i] \in KoreanRange /\ \A j \in 1..(i - 1) : s[j] \notin KoreanRange
    ELSE 0

KoreanSyllableOffByOne(counter) == PyIndex(korean_jamo, counter - 2)

\* korean_jamo[counter - 1]
KoreanSyllable(counter) == PyIndex(korean_jamo, counter - 1)

FormatCounterText(template_text, counter) ==
    LET stripped == Strip(template_text)
        m == FirstKorean(template_text)
    IN  IF stripped \in Range(roman_upper)
        THEN Replace(template_text, stripped, RomanResult(roman_upper, counter))
        ELSE IF stripped \in Range(roman_lower)
        THEN Replace(template_text, stripped, RomanResult(roman_lower, counter))
        ELSE IF FirstDigit(template_text) # 0
        THEN SubFirstDigits(template_text, counter)
        ELSE IF m # 0 /\ counter <= Len(korean_jamo)
        THEN Slice(template_text, 1, m - 1) \o <<KoreanSyllable(counter)>>
                 \o Slice(template_text, m + 1, Len(template_text))
        ELSE template_text

\* The templates the prefixes and numbering cells are drawn from.
TplRomanDot == <<"I", ".">>
TplRomanLowerDot == <<"i", ".">>
TplDigitDot == <<"1", ".">>
TplKoreanDot == <<"ga", ".">>
TplRoman == <<"I">>
TplRomanLowerPadded == <<" ", "i", " ">>
TplRomanFour == <<"I", "V">>
TplTwoDigits == <<"1", "0", ")">>
TplChapter == <<"je", "1", "jang">>
TplKoreanOther == <<"gak", ")">>
TplBullet == <<"-", " ">>
TplBeyond == <<"hi", ".">>

FmtTemplates ==
    {TplRomanDot, TplRomanLowerDot, TplDigitDot, TplKoreanDot, TplRoman,
     TplRomanLowerPadded, TplRomanFour, TplTwoDigits, TplChapter, TplKoreanOther,
     TplBullet, TplBeyond}

MaxCounter == 20

FmtIdle == [template |-> <<>>, counter |-> 0, result |-> <<>>]

\* One call of _format_counter_text, as made for a header prefix, a numbering
\* cell or a list prefix.
FormatCounter ==
    \E t \in FmtTemplates, k \in 1..MaxCounter :
        /\ fmt' = [template |-> t, counter |-> k, result |-> FormatCounterText(t, k)]
        /\ UNCHANGED notCounterVars

\* ---------------------------------------------------------------------
\* Template introspection: outline levels (_parse_styles_and_init_xml)
\* ---------------------------------------------------------------------

\* A paraPr without an OUTLINE heading.
NoLevel == -1

MaxTplParaPr == 3

MaxOutlineLevel == 3

\* The header of a template: paraPr number i (id i - 1, in document order)
\* carries the outline level paraLevels[i], and the paraPr ids in styled are
\* those some style refers to.
Templates ==
    [paraLevels : [1..MaxTplParaPr -> {NoLevel} \cup 0..MaxOutlineLevel],
     styled : SUBSET (0..(MaxTplParaPr - 1))]

TplNone == [paraLevels |-> <<>>, styled |-> {}]

NoError == [type |-> "none", msg |-> "none", expected |-> 0, found |-> 0]

IntroIdle == [pc |-> "new", error |-> NoError, detected |-> <<>>, bodyEmitted |-> FALSE]

\* level_to_para_pr: the levels in the order of their first paraPr
RECURSIVE LevelOrder(_, _)
LevelOrder(levels, i) ==
    IF i > Len(levels) THEN <<>>
    ELSE IF levels[i] # NoLevel /\ \A j \in 1..(i - 1) : levels[j] # levels[i]
         THEN <<[level |-> levels[i], p_id |-> i - 1]>> \o LevelOrder(levels, i + 1)
         ELSE LevelOrder(levels, i + 1)

\* detected_levels before sorting: the levels whose paraPr a style refers to
RECURSIVE DetectedLevels(_, _)
DetectedLevels(order, styled) ==
    IF order = <<>> THEN <<>>
    ELSE IF Head(order).p_id \in styled
         THEN <<Head(order).level>> \o DetectedLevels(Tail(order), styled)
         ELSE DetectedLevels(Tail(order), styled)

\* detected_levels.sort()
SortedLevels(t) ==
    SortSeq(DetectedLevels(LevelOrder(t.paraLevels, 1), t.styled), LAMBDA a, b : a < b)

\* The exception class of the 'raise' statements of the validation.
RaisedType == "ValueError"

\* for i in range(len(detected_levels)): the first i (1-based here) with
\* detected_levels[i] != i, 0 when there is none
FirstGap(d) ==
    IF \E i \in 1..Len(d) : d[i] # i - 1
    THEN CHOOSE i \in 1..Len(d) : d[i] # i - 1 /\ \A j \in 1..(i - 1) : d[j] = j - 1
    ELSE 0

\* The error the validation raises for the sorted levels d, NoError when it passes.
OutlineValidation(d) ==
    IF d = <<>> THEN NoError
    ELSE IF d[1] # 0
    THEN [type |-> RaisedType, msg |-> "Outline levels must start from 0",
          expected |-> 0, found |-> d[1]]
    ELSE IF FirstGap(d) # 0
    THEN [type |-> RaisedType, msg |-> "Outline levels are missing/gapped",
          expected |-> FirstGap(d) - 1, found |-> d[FirstGap(d)]]
    ELSE NoError

\* The constructor parses header.xml: the exception of the validation leaves it.
ParseStyles ==
    /\ intro.pc = "new"
    /\ LET d == SortedLevels(tpl)
           e == OutlineValidation(d)
       IN  intro' = [intro EXCEPT !.pc = IF e = NoError THEN "parsed" ELSE "failed",
                                  !.error = e,
                                  !.detected = d]
    /\ UNCHANGED <<tpl, notOutlineVars>>

\* convert(): reached only when the constructor returned.
ConvertAfterParse ==
    /\ intro.pc = "parsed"
    /\ ~intro.bodyEmitted
    /\ intro' = [intro EXCEPT !.bodyEmitted = TRUE]
    /\ UNCHANGED <<tpl, notOutlineVars>>

\* ---------------------------------------------------------------------
\* The header XML tree and the style registry
\* ---------------------------------------------------------------------

\* A charPr node: its id, the child elements among bold, italic, underline,
\* supscript and subscript, the value of textColor, the colour of underline.
CharNode(id, kids, textColor, ulColor) ==
    [id |-> id, kids |-> kids, textColor |-> textColor, ulColor |-> ulColor]

NoCharNode == CharNode(-1, {}, "none", "none")

PlainChar(id) == CharNode(id, {}, "#000000", "none")

\* A paraPr node: its id, its heading (type, idRef, level), the horizontal
\* alignment, the left margin and the indent.
ParaNode(id, headingType, idRef, level, align, left, intent) ==
    [id |-> id, headingType |-> headingType, idRef |-> idRef, level |-> level,
     align |-> align, left |-> left, intent |-> intent]

NoParaNode == ParaNode(-1, "NONE", 0, 0, "JUSTIFY", 0, 0)

PlainPara(id) == ParaNode(id, "NONE", 0, 0, "JUSTIFY", 0, 0)

OutlinePara(id, level) == ParaNode(id, "OUTLINE", 0, level, "JUSTIFY", 0, 0)

StyleNode(id, paraPrIDRef, charPrIDRef) ==
    [id |-> id, paraPrIDRef |-> paraPrIDRef, charPrIDRef |-> charPrIDRef]

NoStyleNode == StyleNode(-1, -1, -1)

\* root.find('...[@id="x"]'): the first node in document order with that id
FindNode(nodes, id, none) ==
    IF \E i \in 1..Len(nodes) : nodes[i].id = id
    THEN nodes[CHOOSE i \in 1..Len(nodes) :
                   nodes[i].id = id /\ \A j \in 1..(i - 1) : nodes[j].id # id]
    ELSE none

\* the largest id among the nodes, 0 when there is none (or none above 0)
MaxIdOfFirst(nodes) == IF nodes = <<>> THEN 0 ELSE nodes[1].id

MaxId(nodes) ==
    IF \E i \in 1..Len(nodes) : nodes[i].id > 0
    THEN CHOOSE m \in {nodes[i].id : i \in 1..Len(nodes)} :
             \A i \in 1..Len(nodes) : nodes[i].id <= m
    ELSE 0

Ids(nodes) == {nodes[i].id : i \in 1..Len(nodes)}

Formats == {"BOLD", "ITALIC", "UNDERLINE", "SUPERSCRIPT", "SUBSCRIPT", "COLOR_BLUE"}

\* 'Modify properties based on formats'
FormatBold(n, f) == IF "BOLD" \in f THEN [n EXCEPT !.kids = @ \cup {"bold"}] ELSE n

FormatItalic(n, f) == IF "ITALIC" \in f THEN [n EXCEPT !.kids = @ \cup {"italic"}] ELSE n

FormatUnderline(n, f) ==
    IF "UNDERLINE" \in f
    THEN [n EXCEPT !.kids = @ \cup {"underline"}, !.ulColor = "#000000"]
    ELSE n

FormatBlue(n, f) ==
    IF "COLOR_BLUE" \in f
    THEN [n EXCEPT !.textColor = "#0000FF",
                   !.ulColor = IF "underline" \in n.kids THEN "#0000FF" ELSE @]
    ELSE n

FormatScriptAddOnly(n, f) ==
    IF "SUPERSCRIPT" \in f
    THEN [n EXCEPT !.kids = @ \cup {"supscript"}]
    ELSE IF "SUBSCRIPT" \in f
    THEN [n EXCEPT !.kids = @ \cup {"subscript"}]
    ELSE n

FormatScript(n, f) ==
    IF "SUPERSCRIPT" \in f
    THEN [n EXCEPT !.kids = (@ \ {"subscript"}) \cup {"supscript"}]
    ELSE IF "SUBSCRIPT" \in f
    THEN [n EXCEPT !.kids = (@ \ {"supscript"}) \cup {"subscript"}]
    ELSE n

ApplyFormats(n, f) ==
    FormatScript(FormatBlue(FormatUnderline(FormatItalic(FormatBold(n, f), f), f), f), f)

InCache(cache, key) == key \in DOMAIN cache

\* The result of a derivation: the id returned, the header and the registry after it.
Derived(id, h, r) == [id |-> id, header |-> h, registry |-> r]

\* the node _get_char_pr_id clones: the base, or charPr 0 when the base is absent
CharBaseNode(h, base_id) ==
    LET base_node == FindNode(h.charProperties, base_id, NoCharNode)
    IN  IF base_node # NoCharNode THEN base_node
        ELSE FindNode(h.charProperties, 0, NoCharNode)

\* _get_char_pr_id(base_id, active_formats)
GetCharPrId(h, r, base_id, active_formats) ==
    LET cache_key == <<base_id, active_formats>>
        base_node == CharBaseNode(h, base_id)
        new_id == r.max_char_pr_id + 1
        new_node == ApplyFormats([base_node EXCEPT !.id = new_id], active_formats)
    IN  IF active_formats = {} THEN Derived(base_id, h, r)
        ELSE IF InCache(r.char_pr_cache, cache_key)
        THEN Derived(r.char_pr_cache[cache_key], h, r)
        ELSE IF base_node = NoCharNode THEN Derived(base_id, h, r)
        ELSE Derived(new_id,
                     [h EXCEPT !.charProperties = Append(@, new_node)],
                     [r EXCEPT !.max_char_pr_id = new_id,
                               !.char_pr_cache = (cache_key :> new_id) @@ @])

\* the nodes a call appends to charProperties
CharNodesAppended(h, r, base_id, active_formats) ==
    Len(GetCharPrId(h, r, base_id, active_formats).header.charProperties)
        - Len(h.charProperties)

\* a value _get_aligned_para_pr returns when the alignment cannot be applied
NoParaPr == -1

\* _get_aligned_para_pr(hwpx_align)
GetAlignedParaPr(h, r, hwpx_align) ==
    LET base_node == FindNode(h.paraProperties, r.normal_para_pr_id, NoParaNode)
        new_id == r.max_para_pr_id + 1
        new_node == [base_node EXCEPT !.id = new_id, !.align = hwpx_align]
    IN  IF hwpx_align = "NONE" THEN Derived(NoParaPr, h, r)
        ELSE IF InCache(r.aligned_para_pr_cache, hwpx_align)
        THEN Derived(r.aligned_para_pr_cache[hwpx_align], h, r)
        ELSE IF base_node = NoParaNode THEN Derived(NoParaPr, h, r)
        ELSE Derived(new_id,
                     [h EXCEPT !.paraProperties = Append(@, new_node)],
                     [r EXCEPT !.max_para_pr_id = new_id,
                               !.aligned_para_pr_cache = (hwpx_align :> new_id) @@ @])

BLOCKQUOTE_LEFT_INDENT == 2000

BLOCKQUOTE_INDENT_PER_LEVEL == 2000

\* _get_blockquote_para_pr(level)
GetBlockquoteParaPr(h, r, level) ==
    LET base_node == FindNode(h.paraProperties, r.normal_para_pr_id, NoParaNode)
        new_id == r.max_para_pr_id + 1
        indent == BLOCKQUOTE_LEFT_INDENT + level * BLOCKQUOTE_INDENT_PER_LEVEL
        new_node == [base_node EXCEPT !.id = new_id, !.left = @ + indent]
    IN  IF InCache(r.blockquote_para_pr_cache, level)
        THEN Derived(r.blockquote_para_pr_cache[level], h, r)
        ELSE IF base_node = NoParaNode THEN Derived(r.normal_para_pr_id, h, r)
        ELSE Derived(new_id,
                     [h EXCEPT !.paraProperties = Append(@, new_node)],
                     [r EXCEPT !.max_para_pr_id = new_id,
                               !.blockquote_para_pr_cache = (level :> new_id) @@ @])

LIST_HANGING_INDENT == 2000

\* _get_list_para_pr(num_id, level)
GetListParaPr(h, r, num_id, level) ==
    LET base_node == FindNode(h.paraProperties, r.normal_para_pr_id, NoParaNode)
        new_id == r.max_para_pr_id + 1
        new_node == [base_node EXCEPT !.id = new_id,
                                      !.headingType = "NUMBER",
                                      !.idRef = num_id,
                                      !.level = level,
                                      !.intent = 0 - LIST_HANGING_INDENT,
                                      !.left = (level + 1) * LIST_HANGING_INDENT]
    IN  IF base_node = NoParaNode THEN Derived(r.normal_para_pr_id, h, r)
        ELSE Derived(new_id,
                     [h EXCEPT !.paraProperties = Append(@, new_node)],
                     [r EXCEPT !.max_para_pr_id = new_id])

\* _create_numbering(type, start_num)
CreateNumbering(h, r, type, start_num) ==
    LET new_id == MaxId(h.numberings) + 1
        new_node == [id |-> new_id, type |-> type, start |-> start_num]
    IN  Derived(new_id, [h EXCEPT !.numberings = Append(@, new_node)], r)

\* _ensure_table_border_fill(root): the id it records in table_border_fill_id
TableBorderFillId(h) == MaxId(h.borderFills) + 1

EnsureTableBorderFill(h) ==
    [h EXCEPT !.borderFills = Append(@, [id |-> TableBorderFillId(h)])]

SetItemCntSkippingBorderFills(h) ==
    [h EXCEPT !.itemCnt = [charProperties |-> Len(h.charProperties),
                           paraProperties |-> Len(h.paraProperties),
                           numberings |-> Len(h.numberings),
                           borderFills |-> @.borderFills]]

\* convert(): 'Update itemCnt' for the four collections
SetItemCnt(h) ==
    [h EXCEPT !.itemCnt = [charProperties |-> Len(h.charProperties),
                           paraProperties |-> Len(h.paraProperties),
                           numberings |-> Len(h.numberings),
                           borderFills |-> Len(h.borderFills)]]

\* ---------------------------------------------------------------------
\* Introspection of the header, and the emission of body blocks
\* ---------------------------------------------------------------------

\* A header.xml as the template carries it: every itemCnt is the count of
\* the children, as the editor saved it.
Header(chars, paras, nums, fills, styles) ==
    [charProperties |-> chars, paraProperties |-> paras, numberings |-> nums,
     borderFills |-> fills, styles |-> styles,
     itemCnt |-> [charProperties |-> Len(chars), paraProperties |-> Len(paras),
                  numberings |-> Len(nums), borderFills |-> Len(fills)]]

\* Normal style 0 and two outline styles, charPr 0..2, paraPr 0..2
HeaderStandard ==
    Header(<<PlainChar(0), PlainChar(1), PlainChar(2)>>,
           <<PlainPara(0), OutlinePara(1, 0), OutlinePara(2, 1)>>,
           <<[id |-> 1, type |-> "ORDERED", start |-> 1]>>,
           <<[id |-> 1], [id |-> 2]>>,
           <<StyleNode(0, 0, 0), StyleNode(1, 1, 1), StyleNode(2, 2, 2)>>)

\* the one outline style has id 5
HeaderSparseStyles ==
    Header(<<PlainChar(0), PlainChar(1)>>,
           <<PlainPara(0), OutlinePara(1, 0)>>,
           <<>>,
           <<[id |-> 1]>>,
           <<StyleNode(0, 0, 0), StyleNode(5, 1, 1)>>)

\* the character shapes are numbered from 1
HeaderNoCharZero ==
    Header(<<PlainChar(1), PlainChar(2)>>,
           <<PlainPara(0), OutlinePara(1, 0)>>,
           <<>>,
           <<[id |-> 1]>>,
           <<StyleNode(0, 0, 1), StyleNode(1, 1, 2)>>)

\* no hh:style at all: the defaults of __init__ stay in force
HeaderNoStyles ==
    Header(<<PlainChar(0)>>, <<PlainPara(0)>>, <<>>, <<>>, <<>>)

StyleTemplates == {HeaderStandard, HeaderSparseStyles, HeaderNoCharZero, HeaderNoStyles}

\* '1. Find Normal Style (id="0" or first)'
NormalStyleNode(h) ==
    IF FindNode(h.styles, 0, NoStyleNode) # NoStyleNode
    THEN FindNode(h.styles, 0, NoStyleNode)
    ELSE IF Len(h.styles) > 0 THEN h.styles[1] ELSE NoStyleNode

\* '2. Map Outline Levels': the first paraPr that carries an outline level
LevelToParaPr(h, level) ==
    LET at == {i \in 1..Len(h.paraProperties) :
                   /\ h.paraProperties[i].headingType = "OUTLINE"
                   /\ h.paraProperties[i].level = level}
    IN  IF at = {} THEN NoParaPr
        ELSE h.paraProperties[CHOOSE i \in at : \A j \in at : i <= j].id

\* 'Map ParaPrID -> Style Info': the first style that refers to the paraPr
ParaPrToStyleInfo(h, p_ref) ==
    LET at == {i \in 1..Len(h.styles) : h.styles[i].paraPrIDRef = p_ref}
    IN  IF at = {} THEN NoStyleNode
        ELSE h.styles[CHOOSE i \in at : \A j \in at : i <= j]

MaxHeaderLevel == 3

\* 'Combine': outline_style_ids, keyed as dynamic_style_map is
OutlineStyleIds(h) ==
    LET levels == {l \in 0..MaxHeaderLevel :
                       /\ LevelToParaPr(h, l) # NoParaPr
                       /\ ParaPrToStyleInfo(h, LevelToParaPr(h, l)) # NoStyleNode}
    IN  [l \in levels |-> ParaPrToStyleInfo(h, LevelToParaPr(h, l)).id]

\* __init__ and _parse_styles_and_init_xml: the registry after construction
InitRegistry(h) ==
    [max_char_pr_id |-> MaxId(h.charProperties),
     max_para_pr_id |-> MaxId(h.paraProperties),
     char_pr_cache |-> <<>>,
     aligned_para_pr_cache |-> <<>>,
     blockquote_para_pr_cache |-> <<>>,
     normal_style_id |-> IF NormalStyleNode(h) # NoStyleNode
                         THEN NormalStyleNode(h).id ELSE 0,
     normal_para_pr_id |-> IF NormalStyleNode(h) # NoStyleNode
                           THEN NormalStyleNode(h).paraPrIDRef ELSE 1,
     table_border_fill_id |-> TableBorderFillId(h),
     outline_style_ids |-> OutlineStyleIds(h)]

NoRefs == [styleRefs |-> {}, paraRefs |-> {}, charRefs |-> {}, borderRefs |-> {}]

BodyIdle == [pc |-> "idle", blocks |-> 0, refs |-> NoRefs]

\* The conversion as the handlers thread it: the header tree, the registry,
\* the body written so far, the calls of _get_char_pr_id.
State(h, r, b, c) == [header |-> h, registry |-> r, body |-> b, calls |-> c]

Refer(s, kind, id) == [s EXCEPT !.body.refs[kind] = @ \cup {id}]

\* _create_para_elem(style_id, para_pr_id)
CreateParaElem(s, style_id, para_pr_id) ==
    Refer(Refer(s, "styleRefs", style_id), "paraRefs", para_pr_id)

\* _create_run_elem(char_pr_id)
CreateRunElem(s, char_pr_id) == Refer(s, "charRefs", char_pr_id)

NoCalls == [ids |-> {}, appended |-> 0]

CallsOf(c, key) == IF key \in DOMAIN c THEN c[key] ELSE NoCalls

\* get_current_id(): one call of _get_char_pr_id, and the run that takes its id
RunWithFormats(s, base_id, formats) ==
    LET d == GetCharPrId(s.header, s.registry, base_id, formats)
        key == <<base_id, formats>>
        before == CallsOf(s.calls, key)
        after == [ids |-> before.ids \cup {d.id},
                  appended |-> before.appended
                      + CharNodesAppended(s.header, s.registry, base_id, formats)]
    IN  CreateRunElem(State(d.header, d.registry, s.body, (key :> after) @@ s.calls), d.id)

\* An inline of a paragraph: a text under the formats of the spans around
\* it, inside a Link or not.
Inline(link, formats) == [link |-> link, formats |-> formats]

Text == Inline(FALSE, {})

\* _process_inlines_to_elems(inlines, parent_elem, base_char_pr_id)
ProcessInlines(s, base_char_pr_id, inline) ==
    IF inline.link
    THEN CreateRunElem(
             RunWithFormats(CreateRunElem(s, 0), base_char_pr_id,
                            inline.formats \cup {"UNDERLINE", "COLOR_BLUE"}),
             0)
    ELSE RunWithFormats(s, base_char_pr_id, inline.formats)

\* the charPrIDRef of the Normal style, 0 when the style is not found
NormalCharPrId(s) ==
    LET style_node == FindNode(s.header.styles, s.registry.normal_style_id, NoStyleNode)
    IN  IF style_node # NoStyleNode THEN style_node.charPrIDRef ELSE 0

\* _handle_text_block(content), no {{BODY}} placeholder in the template
HandleTextBlock(s, inline) ==
    ProcessInlines(
        CreateParaElem(s, s.registry.normal_style_id, s.registry.normal_para_pr_id),
        NormalCharPrId(s), inline)

\* _handle_header: does the style map know the level?
HeaderLevelKnown(s, level) == (level - 1) \in DOMAIN s.registry.outline_style_ids

\* _handle_header: 'Map header level to style'
HeaderStyleId(s, level) ==
    IF level \in DOMAIN s.registry.outline_style_ids
    THEN s.registry.outline_style_ids[level]
    ELSE level

\* _handle_header(content), no {{H*}} placeholder in the template
HandleHeader(s, level, inline) ==
    LET style_id == HeaderStyleId(s, level)
        style_node == FindNode(s.header.styles, style_id, NoStyleNode)
        para_pr_id == IF style_node # NoStyleNode THEN style_node.paraPrIDRef
                      ELSE s.registry.normal_para_pr_id
        char_pr_id == IF style_node # NoStyleNode THEN style_node.charPrIDRef ELSE 0
    IN  IF ~HeaderLevelKnown(s, level) THEN [s EXCEPT !.body.pc = "ValueError"]
        ELSE ProcessInlines(CreateParaElem(s, style_id, para_pr_id), char_pr_id, inline)

\* _handle_bullet_list_elem / _handle_ordered_list_elem at level 0, one item
\* of one paragraph, no list placeholder in the template
HandleList(s, type, inline) ==
    LET n == CreateNumbering(s.header, s.registry, type, 1)
        d == GetListParaPr(n.header, n.registry, n.id, 0)
    IN  ProcessInlines(
            CreateParaElem(State(d.header, d.registry, s.body, s.calls),
                           s.registry.normal_style_id, d.id),
            0, inline)

\* _handle_blockquote(content, level): one paragraph of a quote at that level
HandleBlockquote(s, level, inline) ==
    LET d == GetBlockquoteParaPr(s.header, s.registry, level)
    IN  ProcessInlines(
            CreateParaElem(State(d.header, d.registry, s.body, s.calls),
                           s.registry.normal_style_id, d.id),
            NormalCharPrId(s), inline)

\* _handle_code_block(content) of a code block that is not a diagram: a
\* paragraph of the Normal style whose run takes the default charPr
HandleCodeBlock(s) ==
    CreateRunElem(
        CreateParaElem(s, s.registry.normal_style_id, s.registry.normal_para_pr_id), 0)

\* _handle_horizontal_rule(): two such paragraphs
HandleHorizontalRule(s) ==
    LET once(t) == CreateRunElem(
                       CreateParaElem(t, t.registry.normal_style_id,
                                      t.registry.normal_para_pr_id), 0)
    IN  once(once(s))

\* _handle_table_elem: 'Apply alignment to paragraph elements'
AlignCell(s, hwpx_align) ==
    LET d == GetAlignedParaPr(s.header, s.registry, hwpx_align)
    IN  IF d.id # NoParaPr
        THEN Refer(State(d.header, d.registry, s.body, s.calls), "paraRefs", d.id)
        ELSE s

\* _handle_table_elem(content): a table of one cell that holds one Plain
\* block, no cell placeholder in the template
HandleTable(s, hwpx_align, inline) ==
    LET wrapper == CreateRunElem(
                       CreateParaElem(s, s.registry.normal_style_id,
                                      s.registry.normal_para_pr_id), 0)
        tbl == Refer(wrapper, "borderRefs", s.registry.table_border_fill_id)
        tc == Refer(tbl, "borderRefs", s.registry.table_border_fill_id)
    IN  AlignCell(HandleTextBlock(tc, inline), hwpx_align)

MaxBlocks == 3

Here == State(header_root, registry, body, char_pr_calls)

\* _process_blocks: one block has been handled
Processed(s) ==
    /\ header_root' = s.header
    /\ registry' = s.registry
    /\ body' = [s.body EXCEPT !.blocks = @ + 1]
    /\ char_pr_calls' = s.calls
    /\ UNCHANGED notStyleVars

CanProcess == body.pc = "emitting" /\ body.blocks < MaxBlocks

ParaInlines ==
    {Text, Inline(FALSE, {"BOLD"}), Inline(FALSE, {"ITALIC"}),
     Inline(FALSE, {"BOLD", "ITALIC"}), Inline(TRUE, {})}

Para == \E inline \in ParaInlines :
    CanProcess /\ Processed(HandleTextBlock(Here, inline))

HeaderBlock == \E level \in 1..MaxHeaderLevel, inline \in {Text, Inline(FALSE, {"BOLD"})} :
    CanProcess /\ Processed(HandleHeader(Here, level, inline))

ListInlines == {Text, Inline(FALSE, {"BOLD"}), Inline(FALSE, {"ITALIC"})}

ListBlock == \E type \in {"BULLET", "ORDERED"}, inline \in ListInlines :
    CanProcess /\ Processed(HandleList(Here, type, inline))

BlockQuote == \E level \in 0..1, inline \in {Text, Inline(FALSE, {"ITALIC"})} :
    CanProcess /\ Processed(HandleBlockquote(Here, level, inline))

HorizontalRule == CanProcess /\ Processed(HandleHorizontalRule(Here))

CodeBlock == CanProcess /\ Processed(HandleCodeBlock(Here))

Table == \E hwpx_align \in {"NONE", "CENTER"} :
    CanProcess /\ Processed(HandleTable(Here, hwpx_align, Text))

\* convert(): the blocks are processed, the itemCnt are updated, it returns
ConvertReturns ==
    /\ body.pc = "emitting"
    /\ header_root' = SetItemCnt(header_root)
    /\ body' = [body EXCEPT !.pc = "returned"]
    /\ UNCHANGED <<registry, char_pr_calls, notStyleVars>>

\* ---------------------------------------------------------------------
\* Nested lists
\* ---------------------------------------------------------------------

MAX_NESTING_DEPTH == 20

CapLevelAboveLimit(level) ==
    IF level > MAX_NESTING_DEPTH THEN MAX_NESTING_DEPTH - 1 ELSE level

\* 'if level >= self.config.MAX_NESTING_DEPTH: level = MAX_NESTING_DEPTH - 1'
CapLevel(level) ==
    IF level >= MAX_NESTING_DEPTH THEN MAX_NESTING_DEPTH - 1 ELSE level

\* A list placeholder of the template: list_styles[(type, level)]
ListStyle(type, level, mode, prefix) ==
    [type |-> type, level |-> level, mode |-> mode, prefix |-> prefix,
     charPrIDRef |-> 0, paraPrIDRef |-> 0]

NoListStyle == ListStyle("NONE", 0, "fallback", <<>>)

ListStylesTop ==
    {ListStyle("BULLET", 1, "numbering", <<>>),
     ListStyle("ORDERED", 1, "prefix", TplDigitDot)}

ListStylesDeep == {ListStyle("ORDERED", MAX_NESTING_DEPTH, "prefix", TplDigitDot)}

ListTemplates == {{}, ListStylesTop, ListStylesDeep}

\* list_styles.get(list_key)
ListStyleOf(styles, type, level) ==
    IF \E st \in styles : st.type = type /\ st.level = level
    THEN CHOOSE st \in styles : st.type = type /\ st.level = level
    ELSE NoListStyle

\* A list handler on the call stack: the depth of the list below the block
\* that started the nesting, the level the handler works at, the mode the
\* template chose for it, the numbering it created (0 when it created none),
\* the item counter of the prefix mode.
ListFrame(type, depth, level, mode, num_id) ==
    [type |-> type, depth |-> depth, level |-> level, mode |-> mode,
     num_id |-> num_id, item_counter |-> 1]

\* _format_list_prefix(prefix_template, list_type, counter)
FormatListPrefix(prefix_template, list_type, counter) ==
    IF list_type = "BULLET" THEN prefix_template
    ELSE FormatCounterText(prefix_template, counter)

\* The fallback handlers derive a list paragraph shape for every block of
\* an item, before they look at the block's type.
PerBlockParaPr(s, frame) ==
    IF frame.mode = "fallback"
    THEN GetListParaPr(s.header, s.registry, frame.num_id, frame.level)
    ELSE Derived(ListStyleOf(list_styles, frame.type, frame.level + 1).paraPrIDRef,
                 s.header, s.registry)

\* _handle_bullet_list_elem / _handle_ordered_list_elem up to the loop over
\* the items: the cap, the look-up of the template's style, the numbering
EnterHandler(s, type, level_arg, depth) ==
    LET level == CapLevel(level_arg)
        style_info == ListStyleOf(list_styles, type, level + 1)
        n == CreateNumbering(s.header, s.registry, type, 1)
    IN  IF style_info # NoListStyle
        THEN [state |-> s,
              frame |-> ListFrame(type, depth, level, style_info.mode, 0)]
        ELSE [state |-> State(n.header, n.registry, s.body, s.calls),
              frame |-> ListFrame(type, depth, level, "fallback", n.id)]

\* a Para or Plain block of an item
ItemParagraph(s, frame) ==
    LET d == PerBlockParaPr(s, frame)
        style_info == ListStyleOf(list_styles, frame.type, frame.level + 1)
        para == CreateParaElem(State(d.header, d.registry, s.body, s.calls),
                               s.registry.normal_style_id, d.id)
    IN  IF frame.mode = "fallback" THEN ProcessInlines(para, 0, Text)
        ELSE IF frame.mode = "prefix"
                /\ FormatListPrefix(style_info.prefix, frame.type, frame.item_counter) # <<>>
        THEN ProcessInlines(CreateRunElem(para, style_info.charPrIDRef),
                            style_info.charPrIDRef, Text)
        ELSE ProcessInlines(para, style_info.charPrIDRef, Text)

MaxListDepth == 25

MixedDepth == 1

MaxListParas == 1

LstIdle == [pc |-> "idle", stack |-> <<>>, paras |-> 0, prefix |-> <<>>]

Top == lst.stack[Len(lst.stack)]

\* The document is a chain of MaxListDepth lists, each nested in an item of
\* the one around it, with up to MaxListParas paragraphs among the items.
\* The types vary in the first MixedDepth levels of the nesting, a deeper
\* list has the type of the list around it.
ListTypesAt(stack) ==
    IF Len(stack) < MixedDepth THEN {"BULLET", "ORDERED"}
    ELSE {stack[Len(stack)].type}

Walked(s) ==
    /\ header_root' = s.header
    /\ registry' = s.registry
    /\ body' = s.body
    /\ char_pr_calls' = s.calls
    /\ UNCHANGED <<list_styles, notListVars>>

\* _process_blocks meets a list (level 0), or a handler meets a list among
\* the blocks of an item and calls the handler of its type with level + 1
EnterList == \E type \in ListTypesAt(lst.stack) :
    /\ lst.pc = "descending"
    /\ Len(lst.stack) < MaxListDepth
    /\ LET s == IF lst.stack = <<>> THEN Here
                ELSE LET d == PerBlockParaPr(Here, Top)
                     IN  IF Top.mode = "fallback"
                         THEN State(d.header, d.registry, body, char_pr_calls)
                         ELSE Here
           e == IF lst.stack = <<>> THEN EnterHandler(s, type, 0, 0)
                ELSE EnterHandler(s, type, Top.level + 1, Top.depth + 1)
       IN  /\ lst' = [lst EXCEPT !.stack = Append(@, e.frame)]
           /\ Walked(e.state)

\* the handler on top meets a Para or Plain block
ItemPara ==
    /\ lst.pc \in {"descending", "ascending"}
    /\ lst.stack # <<>>
    /\ lst.paras < MaxListParas
    /\ lst' = [lst EXCEPT
                  !.paras = @ + 1,
                  !.prefix = IF Top.mode = "prefix"
                             THEN FormatListPrefix(
                                      ListStyleOf(list_styles, Top.type, Top.level + 1).prefix,
                                      Top.type, Top.item_counter)
                             ELSE @,
                  !.stack[Len(lst.stack)].item_counter =
                      IF Top.mode = "prefix" THEN @ + 1 ELSE @]
    /\ Walked(ItemParagraph(Here, Top))

\* the handler on top has no more items and returns its elements
ExitList ==
    /\ lst.pc = "ascending" \/ Len(lst.stack) = MaxListDepth
    /\ lst.stack # <<>>
    /\ lst' = [lst EXCEPT !.stack = SubSeq(@, 1, Len(@) - 1),
                          !.pc = IF Len(lst.stack) = 1 THEN "done" ELSE "ascending"]
    /\ UNCHANGED <<styleVars, list_styles, notListVars>>

\* ---------------------------------------------------------------------
\* Block dispatch and the page break before a level-1 header
\* ---------------------------------------------------------------------

\* _handle_header: 'Page break before H1 when not the first block'
PageBreakVal(level, has_emitted_block, PAGE_BREAK_BEFORE_H1) ==
    IF level = 1 /\ has_emitted_block /\ PAGE_BREAK_BEFORE_H1 THEN 1 ELSE 0

\* A handler on the call stack: a call of _process_blocks with whether its
\* result list holds anything yet, or a call of _handle_blockquote.
BlocksFrame(result) == [handler |-> "_process_blocks", result |-> result]

QuoteFrame == [handler |-> "_handle_blockquote", result |-> FALSE]

\* A paragraph as it is emitted: its block type, the level of a header, its
\* pageBreak, and how many paragraphs the document held before it.
Emitted(type, level, page_break, before) ==
    [type |-> type, level |-> level, pageBreak |-> page_break, before |-> before]

NoneEmitted == Emitted("None", 0, 0, 0)

BlkIdle ==
    [stack |-> <<>>, has_emitted_block |-> FALSE, PAGE_BREAK_BEFORE_H1 |-> TRUE,
     emitted |-> 0, last |-> NoneEmitted, steps |-> 0]

MaxBlockSteps == 5

MaxQuoteDepth == 2

MaxLevel == 2

Frame == blk.stack[Len(blk.stack)]

InBlocks == Frame.handler = "_process_blocks"

\* _process_blocks after a block: 'if result: self._has_emitted_block = True'
AfterBlock(b, appended) ==
    LET result == b.stack[Len(b.stack)].result \/ appended
    IN  [b EXCEPT !.stack[Len(b.stack)].result = result,
                  !.has_emitted_block = @ \/ result]

\* _create_para_elem(..., page_break): one more paragraph in the body
EmitPara(b, type, level, page_break) ==
    [b EXCEPT !.last = Emitted(type, level, page_break, b.emitted),
              !.emitted = @ + 1]

CanStep == blk.stack # <<>> /\ blk.steps < MaxBlockSteps

Step(b) ==
    /\ blk' = [b EXCEPT !.steps = @ + 1]
    /\ UNCHANGED notBlockVars

\* a Para block met by _process_blocks: _handle_para, then the flag
DispatchPara ==
    /\ CanStep /\ InBlocks
    /\ Step(AfterBlock(EmitPara(blk, "Para", 0, 0), TRUE))

\* a Para block met by _handle_blockquote: the paragraph is built in place
QuotedPara ==
    /\ CanStep /\ ~InBlocks
    /\ Step(EmitPara(blk, "Para", 0, 0))

\* a Header block met by _process_blocks: _handle_header, then the flag
DispatchHeader == \E level \in 1..MaxLevel :
    /\ CanStep /\ InBlocks
    /\ Step(AfterBlock(
                EmitPara(blk, "Header", level,
                         PageBreakVal(level, blk.has_emitted_block,
                                      blk.PAGE_BREAK_BEFORE_H1)),
                TRUE))

\* a Header block met by _handle_blockquote: it is handed to a call of
\* _process_blocks of its own, whose result list starts empty
QuotedHeader == \E level \in 1..MaxLevel :
    /\ CanStep /\ ~InBlocks
    /\ Step([EmitPara(blk, "Header", level,
                      PageBreakVal(level, blk.has_emitted_block,
                                   blk.PAGE_BREAK_BEFORE_H1))
                EXCEPT !.has_emitted_block = TRUE])

\* a block of a type _process_blocks has no handler for: nothing is appended
DispatchUnhandled ==
    /\ CanStep /\ InBlocks
    /\ Step(AfterBlock(blk, FALSE))

\* a BlockQuote met by _process_blocks or by _handle_blockquote
EnterBlockQuote ==
    /\ CanStep
    /\ Len(blk.stack) <= MaxQuoteDepth
    /\ Step([blk EXCEPT !.stack = Append(@, QuoteFrame)])

\* _handle_blockquote returns the paragraphs of the quote, joined; back in
\* _process_blocks the string is appended to the result list
ExitBlockQuote ==
    /\ CanStep /\ ~InBlocks
    /\ LET popped == [blk EXCEPT !.stack = SubSeq(@, 1, Len(@) - 1)]
       IN  Step(IF popped.stack[Len(popped.stack)].handler = "_process_blocks"
                THEN AfterBlock(popped, TRUE)
                ELSE popped)

\* ---------------------------------------------------------------------
\* Images: the validation of the path, the images list
\* ---------------------------------------------------------------------

\* The target of an Image inline: its text, whether os.path.isabs holds of
\* it, its segments, the lower-case suffix after its last dot.
Url(text, abs, segs, suffix) ==
    [text |-> text, abs |-> abs, segs |-> segs, suffix |-> suffix]

NoUrl == Url("", FALSE, <<>>, "")

UrlPlain == Url("b.png", FALSE, <<"b.png">>, "png")

UrlMissing == Url("pics/c.JPG", FALSE, <<"pics", "c.JPG">>, "jpg")

UrlInner == Url("a/../b.png", FALSE, <<"a", "..", "b.png">>, "png")

UrlParent == Url("../b.png", FALSE, <<"..", "b.png">>, "png")

UrlAbsolute == Url("/etc/b.png", TRUE, <<"etc", "b.png">>, "png")

UrlTemp == Url("/tmp/b.gif", TRUE, <<"tmp", "b.gif">>, "gif")

UrlTempEscape == Url("/tmp/../etc/b.png", TRUE, <<"tmp", "..", "etc", "b.png">>, "png")

ImageUrls ==
    {UrlPlain, UrlMissing, UrlInner, UrlParent, UrlAbsolute, UrlTemp, UrlTempEscape}

\* the files that exist, as given or below the directory of the Markdown
ExistingFiles == ImageUrls \ {UrlMissing}

\* tempfile.gettempdir() is /tmp: the first segments whose text starts with it
TempPrefixed == {"tmp"}

\* os.path.normpath on the segments: a segment and the '..' after it go; a
\* leading '..' stays in a relative path and goes in an absolute one
RECURSIVE NormSegs(_, _, _)
NormSegs(abs, done, rest) ==
    IF rest = <<>> THEN done
    ELSE IF Head(rest) # ".." THEN NormSegs(abs, Append(done, Head(rest)), Tail(rest))
    ELSE IF done # <<>> /\ done[Len(done)] # ".."
    THEN NormSegs(abs, SubSeq(done, 1, Len(done) - 1), Tail(rest))
    ELSE IF abs THEN NormSegs(abs, done, Tail(rest))
    ELSE NormSegs(abs, Append(done, ".."), Tail(rest))

NormPath(abs, segs) == NormSegs(abs, <<>>, segs)

\* resolved.startswith(base_resolved + os.sep) or resolved == base_resolved
InsideDir(resolved, base_resolved) ==
    /\ Len(resolved) >= Len(base_resolved)
    /\ SubSeq(resolved, 1, Len(base_resolved)) = base_resolved

\* self.input_dir: None, or the directory of the Markdown file
NoDir == <<>>

InputDirs == {NoDir, <<"home", "doc">>}

RawPartsTraverse(url) == ".." \in Range(url.segs)

\* _validate_image_path: 'if ".." in parts' on the normalised path
PartsTraverse(url) == ".." \in Range(NormPath(url.abs, url.segs))

\* _validate_image_path(image_path, base_dir): does it raise SecurityError?
ValidateRaises(url, base_dir) ==
    \/ url.abs
    \/ PartsTraverse(url)
    \/ /\ base_dir # NoDir
       /\ ~InsideDir(NormPath(TRUE, base_dir \o url.segs), NormPath(TRUE, base_dir))

\* _handle_image_elem: is_temp_file
IsTempFile(url) ==
    url.abs /\ url.segs # <<>> /\ url.segs[1] \in TempPrefixed

\* _handle_image_elem: 'Extract Extension'
Extension(url) ==
    IF url.suffix \in {"jpg", "jpeg"} THEN "jpg"
    ELSE IF url.suffix = "gif" THEN "gif"
    ELSE IF url.suffix = "bmp" THEN "bmp"
    ELSE "png"

MAX_IMAGE_COUNT == 500

\* the limits a configuration may carry
ImageLimits == {1, MAX_IMAGE_COUNT}

\* binary_item_id = f"img_{timestamp}_{rand}"
BinaryItemId(timestamp, rand) == <<"img", timestamp, rand>>

ImgIdle ==
    [pc |-> "idle", input_dir |-> NoDir, MAX_IMAGE_COUNT |-> MAX_IMAGE_COUNT,
     clock |-> 0, handled |-> 0, pics |-> <<>>,
     last |-> [url |-> NoUrl, run |-> "none"]]

MaxImages == 2

ImageOutcomePastLimit(url) ==
    IF ~IsTempFile(url) /\ ValidateRaises(url, img.input_dir) THEN "[Image: url]"
    ELSE IF Len(images) > img.MAX_IMAGE_COUNT THEN "[Image limit exceeded: url]"
    ELSE "pic"

\* _handle_image_elem(content): the run it returns for the Image inline
ImageOutcome(url) ==
    IF ~IsTempFile(url) /\ ValidateRaises(url, img.input_dir) THEN "[Image: url]"
    ELSE IF Len(images) >= img.MAX_IMAGE_COUNT THEN "[Image limit exceeded: url]"
    ELSE "pic"

\* an Image inline is met; the clock has or has not moved since the last one
HandleImage == \E url \in ImageUrls, tick \in 0..1, rand \in 0..1 :
    /\ img.pc = "converting"
    /\ img.handled < MaxImages
    /\ LET id == BinaryItemId(img.clock + tick, rand)
           run == ImageOutcome(url)
       IN  /\ images' = IF run = "pic"
                        THEN Append(images, [id |-> id, path |-> url, ext |-> Extension(url)])
                        ELSE images
           /\ img' = [img EXCEPT !.clock = IF run = "pic" THEN @ + tick ELSE @,
                                 !.handled = @ + 1,
                                 !.pics = IF run = "pic" THEN Append(@, [id |-> id]) ELSE @,
                                 !.last = [url |-> url, run |-> run]]
    /\ UNCHANGED <<ref_zip, out_zip, notImageVars>>

\* ---------------------------------------------------------------------
\* The writer of the output archive
\* ---------------------------------------------------------------------

\* The name of an archive entry: directory, base name, extension.
Name(dir, base, ext) == [dir |-> dir, base |-> base, ext |-> ext]

HeaderName == Name("Contents", <<"header">>, "xml")

SectionName == Name("Contents", <<"section0">>, "xml")

ManifestName == Name("Contents", <<"content">>, "hpf")

\* f"BinData/{img_id}.{ext}"
BinDataName(image) == Name("BinData", image.id, image.ext)

\* The content of an entry: what it is, what tells it from another of its
\* kind, and for the body and the manifest the items it lists.
Content(kind, tag, items) == [kind |-> kind, tag |-> tag, items |-> items]

Entry(name, content) == [name |-> name, content |-> content]

\* A reference archive names every entry once.
RefCommon ==
    <<Entry(Name("", <<"mimetype">>, ""), Content("bytes", "mimetype", <<>>)),
      Entry(Name("", <<"version">>, "xml"), Content("bytes", "version", <<>>)),
      Entry(HeaderName, Content("header", "template", <<>>)),
      Entry(SectionName, Content("section", "template", <<>>)),
      Entry(Name("BinData", <<"logo">>, "png"), Content("bytes", "logo", <<>>)),
      Entry(Name("Contents", <<"section1">>, "xml"), Content("section", "second", <<>>))>>

\* content.hpf ends its manifest with </opf:manifest>
RefStandard ==
    Append(RefCommon, Entry(ManifestName, Content("manifest", "closed", <<>>)))

\* content.hpf has no </opf:manifest>
RefOpenManifest ==
    Append(RefCommon, Entry(ManifestName, Content("manifest", "open", <<>>)))

\* the archive has no content.hpf
RefNoManifest == RefCommon

RefArchives == {RefStandard, RefOpenManifest, RefNoManifest}

\* ZipFile.read(name): the content of the last entry of that name
Read(zip, fname) ==
    zip[CHOOSE i \in 1..Len(zip) :
            zip[i].name = fname /\ \A j \in (i + 1)..Len(zip) : zip[j].name # fname].content

\* _embed_images: an image found at a candidate place is written, one that
\* is not found is logged
RECURSIVE EmbedImages(_)
EmbedImages(imgs) ==
    IF imgs = <<>> THEN <<>>
    ELSE IF Head(imgs).path \in ExistingFiles
    THEN <<Entry(BinDataName(Head(imgs)), Content("file", Head(imgs).path.text, <<>>))>>
             \o EmbedImages(Tail(imgs))
    ELSE EmbedImages(Tail(imgs))

\* _write_manifest: the mime type of an item
MimeType(ext) ==
    IF ext = "jpg" THEN "image/jpeg" ELSE IF ext = "gif" THEN "image/gif" ELSE "image/png"

ManifestItem(image) ==
    [id |-> image.id, href |-> BinDataName(image), mime |-> MimeType(image.ext)]

\* _write_manifest(out_zip, ref_zip, fname, images, title)
WriteManifest(hpf_xml, imgs) ==
    IF imgs # <<>> /\ hpf_xml.tag = "closed"
    THEN [hpf_xml EXCEPT !.items = @ \o [i \in 1..Len(imgs) |-> ManifestItem(imgs[i])]]
    ELSE hpf_xml

\* _write_section0(out_zip, ref_zip, fname, xml_body)
WriteSection0(original_xml, xml_body) == Content("section", "converted", xml_body)

CopyEmptied(zip, item) == Entry(item.name, Content("bytes", "", <<>>))

\* 'out_zip.writestr(item, ref_zip.read(fname))'
CopyEntry(zip, item) == Entry(item.name, Read(zip, item.name))

\* _write_hwpx_output: what is written for one entry of the reference
OutEntry(zip, item, xml_body, new_header_xml, imgs) ==
    IF item.name = SectionName
    THEN Entry(item.name, WriteSection0(Read(zip, item.name), xml_body))
    ELSE IF item.name = HeaderName
    THEN IF new_header_xml # "" THEN Entry(item.name, Content("header", new_header_xml, <<>>))
         ELSE CopyEntry(zip, item)
    ELSE IF item.name = ManifestName
    THEN Entry(item.name, WriteManifest(Read(zip, item.name), imgs))
    ELSE CopyEntry(zip, item)

\* convert() has returned; _write_hwpx_output embeds the images and then
\* writes an entry for every entry of the reference
WriteOutput ==
    /\ img.pc = "converting"
    /\ out_zip' = EmbedImages(images)
                      \o [i \in 1..Len(ref_zip) |->
                              OutEntry(ref_zip, ref_zip[i], img.pics, "converted", images)]
    /\ img' = [img EXCEPT !.pc = "written"]
    /\ UNCHANGED <<images, ref_zip, notImageVars>>

\* ---------------------------------------------------------------------
\* Prefix-mode lists: _handle_prefix_list_elem
\* ---------------------------------------------------------------------

MaxItems == 3

MaxItemBlocks == 2

\* the start numbers of the ordered lists walked
StartNums == {1, 3}

\* the prefixes the template's list placeholders carry
ListPrefixes == {TplDigitDot, TplKoreanDot, TplBullet}

PfxIdle ==
    [pc |-> "idle", type |-> "", prefix |-> <<>>, start_num |-> 0,
     item |-> 0, block |-> 0, item_counter |-> 0, elements |-> <<>>]

\* _handle_prefix_list_elem up to its loop: the prefix of the placeholder,
\* item_counter = start_num.  A bullet list is entered with the default
\* start_num of 1.
EnterPrefixList == \E type \in {"BULLET", "ORDERED"}, prefix \in ListPrefixes,
                      start_num \in StartNums :
    /\ pfx.pc = "idle"
    /\ type = "BULLET" => start_num = 1
    /\ pfx' = [pfx EXCEPT !.pc = "items", !.type = type, !.prefix = prefix,
                          !.start_num = start_num, !.item_counter = start_num]
    /\ UNCHANGED notPrefixVars

\* for item_blocks in content: the next item of the list
NextItem ==
    /\ pfx.pc = "items"
    /\ pfx.item < MaxItems
    /\ pfx.item > 0 => pfx.block > 0
    /\ pfx' = [pfx EXCEPT !.item = @ + 1, !.block = 0]
    /\ UNCHANGED notPrefixVars

\* a Para or Plain block of the current item: a paragraph that begins with
\* the formatted prefix; item_counter += 1
PrefixPara ==
    /\ pfx.pc = "items"
    /\ pfx.item > 0
    /\ pfx.block < MaxItemBlocks
    /\ pfx' = [pfx EXCEPT
           !.block = @ + 1,
           !.elements = Append(@, [item |-> pfx.item, block |-> pfx.block + 1,
                                   counter |-> pfx.item_counter,
                                   prefix |-> FormatListPrefix(pfx.prefix, pfx.type,
                                                               pfx.item_counter)]),
           !.item_counter = @ + 1]
    /\ UNCHANGED notPrefixVars

\* a nested list or any other block of the current item: its elements are
\* those of the handler called, and item_counter stays
PrefixOtherBlock ==
    /\ pfx.pc = "items"
    /\ pfx.item > 0
    /\ pfx.block < MaxItemBlocks
    /\ pfx' = [pfx EXCEPT !.block = @ + 1]
    /\ UNCHANGED notPrefixVars

\* return elements
PrefixListReturns ==
    /\ pfx.pc = "items"
    /\ pfx.item > 0 /\ pfx.block > 0
    /\ pfx' = [pfx EXCEPT !.pc = "returned"]
    /\ UNCHANGED notPrefixVars

\* ---------------------------------------------------------------------
\* Hyperlink fields: the Link and Note branches of _process_inlines_to_elems
\* ---------------------------------------------------------------------

MaxLinks == 3

MaxClock == 2

MaxInlineDepth == 3

MaxRuns == 7

FIELD_ID_MODULUS == 100000000

LnkIdle ==
    [clock |-> 0, last_field_id |-> 0, links |-> 0, stack |-> <<>>, runs |-> <<>>]

\* a run of the body, with the Link it was emitted for
FieldRun(kind, link, id) == [kind |-> kind, link |-> link, id |-> id]

\* the inline whose content is being processed: 0 at the top of a paragraph,
\* -1 inside the blocks of a footnote, the number of the Link inside its text
CurrentInline == IF lnk.stack = <<>> THEN 0 ELSE lnk.stack[Len(lnk.stack)]

\* time.time() moves on between two calls
Tick ==
    /\ lnk.clock < MaxClock
    /\ lnk' = [lnk EXCEPT !.clock = @ + 1]
    /\ UNCHANGED notLinkVars

\* _create_field_begin_elem: fid from the clock in milliseconds, kept in
\* self.last_field_id; then the Link's text is processed
LinkBegin ==
    /\ lnk.links < MaxLinks
    /\ Len(lnk.stack) < MaxInlineDepth
    /\ CurrentInline <= 0
    /\ LET fid == lnk.clock % FIELD_ID_MODULUS
           n == lnk.links + 1
       IN  lnk' = [lnk EXCEPT !.links = n,
                              !.last_field_id = fid,
                              !.stack = Append(@, n),
                              !.runs = Append(@, FieldRun("fieldBegin", n, fid))]
    /\ UNCHANGED notLinkVars

\* a Str of the Link's text: a run in the Link's character shape
LinkText ==
    /\ CurrentInline > 0
    /\ Len(lnk.runs) < MaxRuns
    /\ lnk' = [lnk EXCEPT !.runs = Append(@, FieldRun("text", CurrentInline, 0))]
    /\ UNCHANGED notLinkVars

\* a Note: _create_footnote_elem processes the blocks of the footnote
NoteBegin ==
    /\ Len(lnk.stack) < MaxInlineDepth
    /\ CurrentInline >= 0
    /\ lnk.links < MaxLinks
    /\ lnk' = [lnk EXCEPT !.stack = Append(@, -1)]
    /\ UNCHANGED notLinkVars

\* _create_footnote_elem returns
NoteEnd ==
    /\ CurrentInline = -1
    /\ lnk' = [lnk EXCEPT !.stack = SubSeq(@, 1, Len(@) - 1)]
    /\ UNCHANGED notLinkVars

\* _create_field_end_elem: beginIDRef is self.last_field_id
LinkEnd ==
    /\ CurrentInline > 0
    /\ lnk' = [lnk EXCEPT
           !.stack = SubSeq(@, 1, Len(@) - 1),
           !.runs = Append(@, FieldRun("fieldEnd", CurrentInline, lnk.last_field_id))]
    /\ UNCHANGED notLinkVars

\* ---------------------------------------------------------------------
\* Introspection: the cleanliness of the Normal character shape
\* ---------------------------------------------------------------------

\* the children a charPr of the template may carry
CharPrTags == {"bold", "italic", "underline", "supscript", "subscript", "strikeout"}

UnderlineTypes == {"NONE", "BOTTOM"}

\* no style in the header, or the charPrIDRef of the Normal style
NoNormalStyle == -1

NormalCharRefs == {NoNormalStyle, 0, 1, 2}

\* the charPr nodes of the header: 0 is as drawn, 1 is bold, 2 is missing
NormalCharPrs(kids, type) ==
    <<[id |-> 0, kids |-> kids, underline |-> type],
      [id |-> 1, kids |-> {"bold"}, underline |-> "NONE"]>>

NoCharPr == [id |-> -1, kids |-> {}, underline |-> "NONE"]

NrmIdle == [pc |-> "idle", ref |-> NoNormalStyle, charPrs |-> <<>>, error |-> "none"]

forbidden == {"bold", "italic", "underline", "supscript", "subscript"}

\* found_dirty: the forbidden children of the charPr, an underline of type
\* NONE left out
FoundDirty(char_pr) ==
    {tag \in forbidden :
        /\ tag \in char_pr.kids
        /\ ~(tag = "underline" /\ char_pr.underline = "NONE")}

\* step 4 of _parse_styles_and_init_xml: the exception raised, or "none"
NormalCleanliness(ref, charPrs) ==
    LET normal_char_pr_id == IF ref = NoNormalStyle THEN 0 ELSE ref
        normal_char_pr == FindNode(charPrs, normal_char_pr_id, NoCharPr)
    IN  IF normal_char_pr # NoCharPr /\ FoundDirty(normal_char_pr) # {}
        THEN "ValueError"
        ELSE "none"

\* _parse_styles_and_init_xml on a header whose outline levels are valid;
\* the except clause re-raises what was raised
CheckNormalStyle ==
    /\ nrm.pc = "new"
    /\ LET e == NormalCleanliness(nrm.ref, nrm.charPrs)
       IN  nrm' = [nrm EXCEPT !.pc = IF e = "none" THEN "parsed" ELSE "failed",
                              !.error = e]
    /\ UNCHANGED notNormalVars

\* ---------------------------------------------------------------------
\* Unhandled blocks and inlines
\* ---------------------------------------------------------------------

MaxSkipSteps == 5

SkpIdle ==
    [pc |-> "idle", steps |-> 0, num_id |-> 0, raised |-> FALSE,
     plain |-> <<>>, plain_num_id |-> 0]

\* Two conversions are walked side by side: that of the document (in the
\* header tree, the registry and the body) and that of the same document
\* with its unhandled nodes taken out (skp.plain, with skp.plain_num_id).
BothWalked(s, p) ==
    /\ header_root' = s.header
    /\ registry' = s.registry
    /\ body' = s.body
    /\ char_pr_calls' = s.calls
    /\ skp' = [skp EXCEPT !.steps = @ + 1, !.plain = p]
    /\ UNCHANGED <<notSkipVars>>

CanSkipStep(pc) == skp.pc = pc /\ skp.steps < MaxSkipSteps

\* _process_blocks: a Para
SkipPara ==
    /\ CanSkipStep("blocks")
    /\ BothWalked(HandleTextBlock(Here, Text), HandleTextBlock(skp.plain, Text))

\* _process_blocks: a block whose type no branch names; nothing is appended
UnhandledBlock(s) == s

SkipUnhandledBlock ==
    /\ CanSkipStep("blocks")
    /\ BothWalked(UnhandledBlock(Here), skp.plain)

\* _process_inlines_to_elems: an inline whose type no branch names
UnhandledInline(s) == s

\* _process_blocks: a Para whose only inline is of an unhandled type; without
\* the inline the paragraph is empty
SkipUnhandledInline ==
    /\ CanSkipStep("blocks")
    /\ BothWalked(
           UnhandledInline(CreateParaElem(Here, registry.normal_style_id,
                                          registry.normal_para_pr_id)),
           CreateParaElem(skp.plain, skp.plain.registry.normal_style_id,
                          skp.plain.registry.normal_para_pr_id))

\* _handle_blockquote: a Para of the quote
SkipQuotedPara ==
    /\ CanSkipStep("blocks")
    /\ BothWalked(HandleBlockquote(Here, 0, Text), HandleBlockquote(skp.plain, 0, Text))

\* _handle_blockquote: a block of another type goes to _process_blocks, which
\* returns the empty string for an unhandled one
SkipQuotedUnhandled ==
    /\ CanSkipStep("blocks")
    /\ BothWalked(UnhandledBlock(Here), skp.plain)

\* _handle_bullet_list_elem without a placeholder: the numbering is created
SkipEnterList ==
    /\ CanSkipStep("blocks")
    /\ LET n == CreateNumbering(header_root, registry, "BULLET", 1)
           q == CreateNumbering(skp.plain.header, skp.plain.registry, "BULLET", 1)
       IN  /\ header_root' = n.header
           /\ registry' = n.registry
           /\ skp' = [skp EXCEPT !.pc = "item", !.steps = @ + 1, !.num_id = n.id,
                                 !.plain = State(q.header, q.registry, @.body, @.calls),
                                 !.plain_num_id = q.id]
           /\ UNCHANGED <<body, char_pr_calls, notSkipVars>>

\* the blocks of the items: the list paragraph shape is derived for the
\* block, and a Para takes it
FallbackItemPara(s, num_id) ==
    LET d == GetListParaPr(s.header, s.registry, num_id, 0)
    IN  ProcessInlines(
            CreateParaElem(State(d.header, d.registry, s.body, s.calls),
                           s.registry.normal_style_id, d.id),
            0, Text)

\* the list paragraph shape is derived for the block, and a block of an
\* unhandled type goes to _process_blocks, which returns the empty string
FallbackItemUnhandled(s, num_id) ==
    LET d == GetListParaPr(s.header, s.registry, num_id, 0)
    IN  UnhandledBlock(State(d.header, d.registry, s.body, s.calls))

SkipItemPara ==
    /\ CanSkipStep("item")
    /\ BothWalked(FallbackItemPara(Here, skp.num_id),
                  FallbackItemPara(skp.plain, skp.plain_num_id))

SkipItemUnhandled ==
    /\ CanSkipStep("item")
    /\ BothWalked(FallbackItemUnhandled(Here, skp.num_id), skp.plain)

\* the list handler returns
SkipExitList ==
    /\ skp.pc = "item"
    /\ skp' = [skp EXCEPT !.pc = "blocks"]
    /\ UNCHANGED <<styleVars, notSkipVars>>

\* ---------------------------------------------------------------------
\* convert_to_hwpx: validating and reading the template
\* ---------------------------------------------------------------------

\* an entry of the template archive: missing, not well-formed XML, or fine
EntryStates == {"missing", "malformed", "ok"}

\* the reference template as convert_to_hwpx finds it
TemplateFiles ==
    [exists : BOOLEAN, is_zipfile : BOOLEAN, oversize : BOOLEAN,
     header : EntryStates, section : EntryStates]

NoTemplateFile ==
    [exists |-> FALSE, is_zipfile |-> FALSE, oversize |-> FALSE,
     header |-> "missing", section |-> "missing"]

RdIdle ==
    [pc |-> "idle", template |-> NoTemplateFile, json_ast |-> FALSE, error |-> "none",
     page_setup |-> FALSE, header_root |-> FALSE, placeholder_styles |-> FALSE,
     written |-> FALSE]

Raise(r, error) == [r EXCEPT !.pc = "raised", !.error = error]

\* _validate_inputs(input_path, reference_path, json_ast, config)
ValidateInputsOutcome(r) ==
    IF ~r.template.exists THEN Raise(r, "TemplateError")
    ELSE IF ~r.json_ast THEN Raise(r, "ConversionError")
    ELSE IF r.template.oversize THEN Raise(r, "SecurityError")
    ELSE IF ~r.template.is_zipfile THEN Raise(r, "TemplateError")
    ELSE [r EXCEPT !.pc = "validated"]

ValidateInputs ==
    /\ rd.pc = "called"
    /\ rd' = ValidateInputsOutcome(rd)
    /\ UNCHANGED notReadVars

\* _read_template(reference_path): the required entries are looked up and
\* read as text; the page setup is taken from the parsed section, and a
\* failure to parse it is logged
ReadTemplateOutcome(r) ==
    IF r.template.header = "missing" \/ r.template.section = "missing"
    THEN Raise(r, "TemplateError")
    ELSE [r EXCEPT !.pc = "read", !.page_setup = (r.template.section = "ok")]

ReadTemplate ==
    /\ rd.pc = "validated"
    /\ rd' = ReadTemplateOutcome(rd)
    /\ UNCHANGED notReadVars

\* MarkdownToHwpx(json_ast, header_xml_content, section_xml_content,
\* input_path): _parse_styles_and_init_xml parses the header and re-raises
\* what the parser raised; _load_placeholder_styles parses the section and
\* logs a failure
ConstructOutcome(r) ==
    IF r.template.header = "malformed" THEN Raise(r, "ParseError")
    ELSE [r EXCEPT !.pc = "constructed", !.header_root = TRUE,
                   !.placeholder_styles = (r.template.section = "ok")]

Construct ==
    /\ rd.pc = "read"
    /\ rd' = ConstructOutcome(rd)
    /\ UNCHANGED notReadVars

\* converter.convert(page_setup_xml)
ConvertBody ==
    /\ rd.pc = "constructed"
    /\ rd' = [rd EXCEPT !.pc = "converted"]
    /\ UNCHANGED notReadVars

\* _write_hwpx_output: the section entry is cut at '<hs:sec' and '</hs:sec>'
\* as text and written with the body
WriteHwpxOutput ==
    /\ rd.pc = "converted"
    /\ rd' = [rd EXCEPT !.pc = "returned", !.written = TRUE]
    /\ UNCHANGED notReadVars

\* ---------------------------------------------------------------------
\* The configuration of a conversion
\* ---------------------------------------------------------------------

TABLE_WIDTH == 45000

\* DEFAULT_CONFIG = ConversionConfig()
DEFAULT_CONFIG ==
    [MAX_IMAGE_COUNT |-> MAX_IMAGE_COUNT, MAX_NESTING_DEPTH |-> MAX_NESTING_DEPTH,
     PAGE_BREAK_BEFORE_H1 |-> TRUE, TABLE_WIDTH |-> TABLE_WIDTH]

\* the ConversionConfig instances a caller passes
Configs ==
    [MAX_IMAGE_COUNT : {1, MAX_IMAGE_COUNT}, MAX_NESTING_DEPTH : {2, MAX_NESTING_DEPTH},
     PAGE_BREAK_BEFORE_H1 : BOOLEAN, TABLE_WIDTH : {30000, TABLE_WIDTH}]

\* config=None
None == [MAX_IMAGE_COUNT |-> 0, MAX_NESTING_DEPTH |-> 0,
         PAGE_BREAK_BEFORE_H1 |-> FALSE, TABLE_WIDTH |-> 0]

Settings == {"MAX_IMAGE_COUNT", "MAX_NESTING_DEPTH", "PAGE_BREAK_BEFORE_H1", "TABLE_WIDTH"}

CfgIdle ==
    [pc |-> "idle", argument |-> None, config |-> None, self_config |-> None,
     read |-> <<>>]

\* convert_string(markdown_string, output_path, reference_doc, config)
\* hands its config to convert_to_hwpx, where 'if config is None: config =
\* DEFAULT_CONFIG'; _validate_inputs reads the size limits from it
ResolveConfig ==
    /\ cfg.pc = "called"
    /\ cfg' = [cfg EXCEPT !.pc = "validated",
                          !.config = IF cfg.argument = None THEN DEFAULT_CONFIG
                                     ELSE cfg.argument]
    /\ UNCHANGED notConfigVars

\* __init__(json_ast, header_xml_content, section_xml_content, input_path,
\* config): self.config = config if config is not None else DEFAULT_CONFIG
ConverterConfig(config) == IF config # None THEN config ELSE DEFAULT_CONFIG

\* convert_to_hwpx constructs the converter from the AST, the two XML texts
\* and the input path; the config parameter is left at its default
NewConverter ==
    /\ cfg.pc = "validated"
    /\ cfg' = [cfg EXCEPT !.pc = "converting", !.self_config = ConverterConfig(None)]
    /\ UNCHANGED notConfigVars

\* a handler reads self.config.<setting>: the image limit in
\* _handle_image_elem, the depth cap in the list and quote handlers, the page
\* break in _handle_header, the width in _handle_table_elem
ReadSetting == \E setting \in Settings :
    /\ cfg.pc = "converting"
    /\ setting \notin DOMAIN cfg.read
    /\ cfg' = [cfg EXCEPT !.read = (setting :> cfg.self_config[setting]) @@ @]
    /\ UNCHANGED notConfigVars

\* ---------------------------------------------------------------------
\* Header counters: _handle_header with {{H<level>}} placeholders
\* ---------------------------------------------------------------------

MaxHeaders == 5

MaxCounterLevel == 3

NoCounter == 0

HdcIdle ==
    [pc |-> "idle", placeholder_styles |-> {}, header_counters |-> <<>>,
     levels |-> <<>>, counter |-> NoCounter]

\* 'Reset child header counters when a parent header appears'
ResetChildrenAndSelf(header_counters, level) ==
    [child_level \in {l \in DOMAIN header_counters : l < level} |->
        header_counters[child_level]]

ResetChildren(header_counters, level) ==
    [child_level \in {l \in DOMAIN header_counters : l <= level} |->
        header_counters[child_level]]

\* 'Track occurrence count for auto-numbering'
CountHeader(header_counters, level) ==
    LET started == IF level \in DOMAIN header_counters THEN header_counters
                   ELSE (level :> 0) @@ header_counters
    IN  [started EXCEPT ![level] = @ + 1]

\* _handle_header(content) up to the choice of the emitter: the counters of
\* the deeper levels are deleted, and a level that has a placeholder counts
\* the header; the counter goes to _handle_header_in_table or
\* _handle_header_styled.  A level without placeholder takes the style-based
\* branch, which reads no counter.
HandleHeaderCounters == \E level \in 1..MaxCounterLevel :
    /\ hdc.pc = "emitting"
    /\ Len(hdc.levels) < MaxHeaders
    /\ LET reset == ResetChildren(hdc.header_counters, level)
           counted == IF level \in hdc.placeholder_styles
                      THEN CountHeader(reset, level) ELSE reset
       IN  hdc' = [hdc EXCEPT
               !.header_counters = counted,
               !.levels = Append(@, level),
               !.counter = IF level \in hdc.placeholder_styles
                           THEN counted[level] ELSE NoCounter]
    /\ UNCHANGED notHeaderCountVars

\* ---------------------------------------------------------------------
\* _get_char_pr_id over every set of formats
\* ---------------------------------------------------------------------

\* a header whose character shapes carry children of their own: 1 is
\* underlined subscript, 2 is superscript
HeaderFormatted ==
    Header(<<PlainChar(0),
             CharNode(1, {"subscript", "underline"}, "#000000", "#000000"),
             CharNode(2, {"supscript"}, "#000000", "none")>>,
           <<PlainPara(0)>>, <<>>, <<[id |-> 1]>>, <<StyleNode(0, 0, 0)>>)

\* the base ids of the calls; no charPr has id 7
BaseIds == {0, 1, 2, 7}

\* the calls made: none, then one, then one more
CallsBefore == {0, 1}

DrvIdle == [calls |-> 0, base_id |-> 0, active_formats |-> {}, id |-> 0]

\* one call of _get_char_pr_id(base_id, active_formats), as
\* _process_inlines_to_elems makes for a run under the formats around it
DeriveCharPr == \E base_id \in BaseIds, active_formats \in (SUBSET Formats) \ {{}} :
    /\ drv.calls \in CallsBefore
    /\ LET d == GetCharPrId(header_root, registry, base_id, active_formats)
       IN  /\ header_root' = d.header
           /\ registry' = d.registry
           /\ drv' = [calls |-> drv.calls + 1, base_id |-> base_id,
                      active_formats |-> active_formats, id |-> d.id]
    /\ UNCHANGED <<body, char_pr_calls, notDeriveVars>>

\* ---------------------------------------------------------------------
\* Tables: the column widths and the cells of _handle_table_elem
\* ---------------------------------------------------------------------

MaxCols == 3

MaxDashes == 5

\* the numbers of body rows of the tables walked
BodyRowCounts == 0..3

\* self.template_table_width is None
NoTableWidth == 0

TemplateTableWidths == {NoTableWidth, 30000}

ColWidthDefault == [t |-> "ColWidthDefault", dashes |-> 0, total_dashes |-> 0]

\* the proportion col_dashes[col_idx] / total_dashes, kept as its two terms
ColWidth(dashes, total_dashes) ==
    [t |-> "ColWidth", dashes |-> dashes, total_dashes |-> total_dashes]

RECURSIVE SumSeq(_)
SumSeq(q) == IF q = <<>> THEN 0 ELSE q[1] + SumSeq(Tail(q))

\* _get_col_width_info(table_index, col_idx): col_dashes holds the dash
\* count of every cell of the separator row that is not empty (0 here)
GetColWidthInfo(col_dashes, col_idx) ==
    LET total_dashes == SumSeq(col_dashes)
    IN  IF total_dashes = 0 \/ col_dashes[col_idx] = 0 THEN ColWidthDefault
        ELSE ColWidth(col_dashes[col_idx], total_dashes)

\* TOTAL_TABLE_WIDTH
TotalTableWidth(template_table_width) ==
    IF template_table_width # NoTableWidth THEN template_table_width ELSE TABLE_WIDTH

\* int(num / den) of a non-negative quotient: the fraction is dropped.  With
\* the dash counts and widths drawn here the float quotient and the exact
\* one have the same integer part.
IntOf(num, den) == num \div den

\* 'Calculate Widths using config'
ColWidths(specs, total) ==
    [i \in 1..Len(specs) |->
        IF specs[i].t = "ColWidth"
        THEN IntOf(specs[i].dashes * total, specs[i].total_dashes)
        ELSE IntOf(total, Len(specs))]

\* _get_row_type(row_idx, header_row_count, total_body_rows)
GetRowTypeLastFirst(row_idx, header_row_count, total_body_rows) ==
    LET body_idx == row_idx - header_row_count
    IN  IF row_idx < header_row_count THEN "HEADER"
        ELSE IF body_idx = total_body_rows - 1 THEN "BOTTOM"
        ELSE IF body_idx = 0 THEN "TOP"
        ELSE "MIDDLE"

GetRowType(row_idx, header_row_count, total_body_rows) ==
    LET body_idx == row_idx - header_row_count
    IN  IF row_idx < header_row_count THEN "HEADER"
        ELSE IF total_body_rows <= 1 THEN "TOP"
        ELSE IF body_idx = 0 THEN "TOP"
        ELSE IF body_idx = total_body_rows - 1 THEN "BOTTOM"
        ELSE "MIDDLE"

\* _get_col_type(col_idx, total_cols)
GetColType(col_idx, total_cols) ==
    IF total_cols <= 1 THEN "LEFT"
    ELSE IF col_idx = 0 THEN "LEFT"
    ELSE IF col_idx = total_cols - 1 THEN "RIGHT"
    ELSE "CENTER"

\* _get_cell_style_key(row_type, col_type)
GetCellStyleKey(row_type, col_type) == <<row_type, "_", col_type>>

\* 'Find next free column'
NextFreeColNoSkip(occupied_cells, row_addr, col_addr) == col_addr

NextFreeCol(occupied_cells, row_addr, col_addr) ==
    CHOOSE c \in col_addr..(col_addr + Cardinality(occupied_cells)) :
        /\ <<row_addr, c>> \notin occupied_cells
        /\ \A b \in col_addr..(c - 1) : <<row_addr, b>> \in occupied_cells

\* 'Mark occupied cells'
Rectangle(row_addr, col_addr, rowspan, colspan) ==
    {<<row_addr + r, col_addr + c>> : r \in 0..(rowspan - 1), c \in 0..(colspan - 1)}

\* 'Calculate cell width'
CellWidth(col_widths, actual_col, colspan, total, col_cnt) ==
    SumSeq([i \in 1..colspan |->
               IF actual_col + (i - 1) < Len(col_widths)
               THEN col_widths[actual_col + (i - 1) + 1]
               ELSE IntOf(total, col_cnt)])

TblIdle ==
    [pc |-> "idle", col_dashes |-> <<>>, template_table_width |-> NoTableWidth,
     specs |-> <<>>, header_row_count |-> 0, body_row_count |-> 0,
     col_widths |-> <<>>, occupied_cells |-> {}, curr_row_addr |-> 0,
     curr_col_addr |-> 0, cells |-> <<>>]

\* the adapter builds the column specs of the Table block from the dash
\* counts of the separator row
ColSpecs ==
    /\ tab.pc = "markdown"
    /\ tab' = [tab EXCEPT
           !.pc = "ast",
           !.specs = [i \in 1..Len(tab.col_dashes) |-> GetColWidthInfo(tab.col_dashes, i)]]
    /\ UNCHANGED notTableVars

\* _handle_table_elem up to the rows: the widths of the columns
ColumnWidths ==
    /\ tab.pc = "ast"
    /\ tab' = [tab EXCEPT
           !.pc = "rows",
           !.col_widths = ColWidths(tab.specs, TotalTableWidth(tab.template_table_width))]
    /\ UNCHANGED notTableVars

\* the spans a cell of the AST carries
Spans == {1, 2}

\* one cell of the current row: the next free column is its anchor, its
\* rectangle is marked, its width and its style key are computed, the
\* running column moves past it.  The cells drawn stay inside the table.
EmitCell == \E rowspan \in Spans, colspan \in Spans :
    /\ tab.pc = "rows"
    /\ tab.curr_row_addr < tab.header_row_count + tab.body_row_count
    /\ LET col_cnt == Len(tab.specs)
           actual_col == NextFreeCol(tab.occupied_cells, tab.curr_row_addr,
                                     tab.curr_col_addr)
           row_type == GetRowType(tab.curr_row_addr, tab.header_row_count,
                                  tab.body_row_count)
           col_type == GetColType(actual_col, col_cnt)
       IN  /\ actual_col + colspan <= col_cnt
           /\ tab.curr_row_addr + rowspan <= tab.header_row_count + tab.body_row_count
           /\ tab' = [tab EXCEPT
                  !.occupied_cells = @ \cup Rectangle(tab.curr_row_addr, actual_col,
                                                      rowspan, colspan),
                  !.curr_col_addr = actual_col + colspan,
                  !.cells = Append(@,
                      [rowAddr |-> tab.curr_row_addr, colAddr |-> actual_col,
                       rowSpan |-> rowspan, colSpan |-> colspan,
                       running |-> tab.curr_col_addr,
                       width |-> CellWidth(tab.col_widths, actual_col, colspan,
                                           TotalTableWidth(tab.template_table_width),
                                           col_cnt),
                       key |-> GetCellStyleKey(row_type, col_type)])]
    /\ UNCHANGED notTableVars

\* the cells of the row are done: curr_row_addr += 1, and the running
\* column starts at 0 again
NextRow ==
    /\ tab.pc = "rows"
    /\ tab.curr_row_addr < tab.header_row_count + tab.body_row_count
    /\ \A c \in 0..(Len(tab.specs) - 1) : <<tab.curr_row_addr, c>> \in tab.occupied_cells
    /\ tab' = [tab EXCEPT !.curr_row_addr = @ + 1, !.curr_col_addr = 0]
    /\ UNCHANGED notTableVars

\* ---------------------------------------------------------------------
\* convert(): the page setup of the template is put into the body
\* ---------------------------------------------------------------------

MaxBodyBlocks == 3

\* The body is the text of its tags in order: start tags, end tags, the
\* text between them.
StartTag(name, attrs) == [kind |-> "start", name |-> name, attrs |-> attrs]

EndTag(name) == [kind |-> "end", name |-> name, attrs |-> FALSE]

Chars(text) == [kind |-> "text", name |-> text, attrs |-> FALSE]

\* _create_text_run_elem(text) as _elem_to_str writes it
TextRunXml == <<StartTag("hp:run", TRUE), StartTag("hp:t", FALSE), Chars("text"),
                EndTag("hp:t"), EndTag("hp:run")>>

\* a paragraph of n text runs
RECURSIVE Repeat(_, _)
Repeat(q, n) == IF n = 0 THEN <<>> ELSE q \o Repeat(q, n - 1)

ParaXml(n) == <<StartTag("hp:p", TRUE)>> \o Repeat(TextRunXml, n) \o <<EndTag("hp:p")>>

\* a table: its wrapper paragraph and run, one cell with one paragraph
TableXml ==
    <<StartTag("hp:p", TRUE), StartTag("hp:run", TRUE), StartTag("hp:tbl", TRUE),
      StartTag("hp:tc", TRUE)>> \o ParaXml(1)
        \o <<EndTag("hp:tc"), EndTag("hp:tbl"), EndTag("hp:run"), EndTag("hp:p")>>

\* what _process_blocks appends for one block: a paragraph without inlines,
\* of one run, of two runs, a table; nothing for a block type it does not
\* handle
BlockXmls == {ParaXml(0), ParaXml(1), ParaXml(2), TableXml, <<>>}

\* page_setup_xml: None, or the secPr and ctrl nodes of the template's first run
NoPageSetup == <<>>

PageSetupXml == <<StartTag("hp:secPr", TRUE), EndTag("hp:secPr"),
                  StartTag("hp:ctrl", FALSE), EndTag("hp:ctrl")>>

\* does r'(<hp:run [^>]*>)' match at this tag?
IsRunStart(tag) == tag.kind = "start" /\ tag.name = "hp:run" /\ tag.attrs

NoMatch == 0

\* re.search(search_pattern, xml_body): the end of the first match
SearchLastRun(xml_body) ==
    IF \E i \in 1..Len(xml_body) : IsRunStart(xml_body[i])
    THEN CHOOSE i \in 1..Len(xml_body) :
             /\ IsRunStart(xml_body[i])
             /\ \A j \in (i + 1)..Len(xml_body) : ~IsRunStart(xml_body[j])
    ELSE NoMatch

SearchRun(xml_body) ==
    IF \E i \in 1..Len(xml_body) : IsRunStart(xml_body[i])
    THEN CHOOSE i \in 1..Len(xml_body) :
             /\ IsRunStart(xml_body[i])
             /\ \A j \in 1..(i - 1) : ~IsRunStart(xml_body[j])
    ELSE NoMatch

\* 'Inject page_setup_xml (secPr, ctrl) into the FIRST hp:run of the document'
InjectPageSetup(xml_body, page_setup_xml) ==
    LET insert_pos == SearchRun(xml_body)
    IN  IF page_setup_xml # NoPageSetup /\ insert_pos # NoMatch
        THEN SubSeq(xml_body, 1, insert_pos) \o page_setup_xml
                 \o SubSeq(xml_body, insert_pos + 1, Len(xml_body))
        ELSE xml_body

InjIdle == [pc |-> "idle", page_setup_xml |-> NoPageSetup, blocks |-> 0,
            processed |-> <<>>, xml_body |-> <<>>, raised |-> FALSE]

\* _process_blocks: one more block of the document
ProcessBlock == \E xml \in BlockXmls :
    /\ inj.pc = "blocks"
    /\ inj.blocks < MaxBodyBlocks
    /\ inj' = [inj EXCEPT !.blocks = @ + 1, !.processed = @ \o xml]
    /\ UNCHANGED notInjectVars

\* convert(page_setup_xml) once the blocks are processed
Convert ==
    /\ inj.pc = "blocks"
    /\ inj' = [inj EXCEPT !.pc = "converted",
                          !.xml_body = InjectPageSetup(inj.processed, inj.page_setup_xml)]
    /\ UNCHANGED notInjectVars

\* ---------------------------------------------------------------------
\* The placeholder scans of the template's section
\* ---------------------------------------------------------------------

MaxTexts == 2

\* A text node is some characters, then perhaps a {{WORD}}.  A piece of it
\* is a run of other characters or one {{WORD}}.
OtherChars == [word |-> ""]

Braced(word) == [word |-> word]

\* the words between the braces of the templates scanned
Words == {"CELL_TOP_LEFT", "LIST_BULLET_1", "H1", "TITLE"}

Texts ==
    {<<OtherChars>>}
        \cup {<<Braced(w)>> : w \in Words}
        \cup {<<OtherChars, Braced(w)>> : w \in Words}

\* pattern.search(text): the place of the first piece the pattern matches,
\* 0 when there is none
SearchPieces(text, Matches(_)) ==
    IF \E i \in 1..Len(text) : Matches(text[i])
    THEN CHOOSE i \in 1..Len(text) :
             Matches(text[i]) /\ \A j \in 1..(i - 1) : ~Matches(text[j])
    ELSE 0

\* CELL_PATTERN = r'\{\{CELL_(\w+)\}\}'
CellPattern(piece) == piece.word \in {"CELL_TOP_LEFT"}

\* LIST_PATTERN = r'\{\{LIST_(BULLET|ORDERED)_(\d+)\}\}'
ListPattern(piece) == piece.word \in {"LIST_BULLET_1"}

\* HEADER_PATTERN = r'\{\{(H[1-9])\}\}'
HeaderPattern(piece) == piece.word \in {"H1"}

\* PLACEHOLDER_PATTERN = r'\{\{(\w+)\}\}'
PlaceholderPattern(piece) == piece.word # ""

\* text_elem.text.startswith('{{CELL_')
StartsWithCell(text) == CellPattern(text[1])

ContainsCell(text) == SearchPieces(text, CellPattern) # 0

\* placeholder_name.startswith('H') and placeholder_name[1:].isdigit()
IsHeaderName(word) == word \in {"H1"}

\* placeholder_name.startswith('LIST_')
IsListName(word) == word \in {"LIST_BULLET_1"}

\* an entry of placeholders, of cell_styles or of list_styles: its key, its
\* mode, the text node it was taken from
Installed(key, mode, node) == [key |-> key, mode |-> mode, node |-> node]

\* dict[key] = value
Put(dict, entry) == {e \in dict : e.key # entry.key} \cup {entry}

Keys(dict) == {e.key : e \in dict}

\* 'mode': 'prefix' if prefix else 'plain'
PrefixMode(text, start) == IF start > 1 THEN "prefix" ELSE "plain"

\* _find_table_placeholders: one text node of a cell
RECURSIVE FindTablePlaceholders(_, _, _)
FindTablePlaceholders(nodes, i, found) ==
    IF i > Len(nodes) THEN found
    ELSE LET text == nodes[i].text
             cell_match == SearchPieces(text, CellPattern)
             header_match == SearchPieces(text, HeaderPattern)
             next ==
                 IF ~nodes[i].in_table THEN found
                 ELSE IF cell_match # 0
                 THEN [found EXCEPT !.cell_styles =
                           Put(@, Installed(text[cell_match].word, "cell", i))]
                 ELSE IF header_match # 0
                 THEN [found EXCEPT !.placeholders =
                           Put(@, Installed(text[header_match].word, "table", i))]
                 ELSE found
         IN  FindTablePlaceholders(nodes, i + 1, next)

\* _find_paragraph_placeholders: one text node of any paragraph, the
\* paragraphs of the cells included
RECURSIVE FindParagraphPlaceholders(_, _, _)
FindParagraphPlaceholders(nodes, i, found) ==
    IF i > Len(nodes) THEN found
    ELSE LET text == nodes[i].text
             list_match == SearchPieces(text, ListPattern)
             header_match == SearchPieces(text, HeaderPattern)
             match == SearchPieces(text, PlaceholderPattern)
             next ==
                 IF list_match # 0
                 THEN [found EXCEPT !.list_styles =
                           Put(@, Installed(text[list_match].word, "list", i))]
                 ELSE IF StartsWithCell(text) THEN found
                 ELSE IF header_match # 0
                 THEN IF text[header_match].word \notin Keys(found.placeholders)
                      THEN [found EXCEPT !.placeholders =
                                Put(@, Installed(text[header_match].word,
                                                 PrefixMode(text, header_match), i))]
                      ELSE found
                 ELSE IF match # 0
                 THEN IF IsHeaderName(text[match].word) \/ IsListName(text[match].word)
                      THEN found
                      ELSE [found EXCEPT !.placeholders =
                                Put(@, Installed(text[match].word,
                                                 PrefixMode(text, match), i))]
                 ELSE found
         IN  FindParagraphPlaceholders(nodes, i + 1, next)

NothingFound == [placeholders |-> {}, cell_styles |-> {}, list_styles |-> {}]

ScnIdle == [pc |-> "idle", nodes |-> <<>>, after_tables |-> NothingFound,
            found |-> NothingFound]

\* _find_placeholders: 'Find placeholders in tables (headers and cells)'
ScanTables ==
    /\ scn.pc = "section"
    /\ LET found == FindTablePlaceholders(scn.nodes, 1, NothingFound)
       IN  scn' = [scn EXCEPT !.pc = "tables", !.after_tables = found, !.found = found]
    /\ UNCHANGED notScanVars

\* _find_placeholders: 'Find placeholders in paragraphs (headers, lists, general)'
ScanParagraphs ==
    /\ scn.pc = "tables"
    /\ scn' = [scn EXCEPT !.pc = "scanned",
                          !.found = FindParagraphPlaceholders(scn.nodes, 1, scn.found)]
    /\ UNCHANGED notScanVars

\* ---------------------------------------------------------------------
\* The size of an image: _handle_image_elem, 'Parse Attributes for Width/Height'
\* ---------------------------------------------------------------------

IMAGE_MAX_WIDTH == 42519

IMAGE_DEFAULT_WIDTH == 8504

IMAGE_DEFAULT_HEIGHT == 8504

\* LUNIT_PER_PX = (25.4 * 283.465) / 96.0 = 75 + 11 / 96000
LunitPerPxWhole == 75

LunitPerPxRestNum == 11

LunitPerPxRestDen == 96000

\* int(px * LUNIT_PER_PX)
PxToLunit(px) == px * LunitPerPxWhole + IntOf(px * LunitPerPxRestNum, LunitPerPxRestDen)

RECURSIVE GCD(_, _)
GCD(a, b) == IF b = 0 THEN a ELSE GCD(b, a % b)

\* int(a * (b / c)): a and c are reduced first, the products stay in range
IntOfScaled(a, b, c) == IntOf((a \div GCD(a, c)) * b, c \div GCD(a, c))

\* _parse_dimension gave None (or 0, which the tests take for None too)
NotParsed == 0

\* what _parse_dimension gives for the width and height attributes drawn
ParsedWidths == {NotParsed, 10000, 42519, 50000}

ParsedHeights == {NotParsed, 5000, 60000}

\* no candidate path exists, or the file cannot be opened
NoFile == [px_width |-> 0, px_height |-> 0]

PixelSizes == {100, 1200, 2400}

ImageFiles == {NoFile} \cup [px_width : PixelSizes, px_height : PixelSizes]

Size(width, height) == [width |-> width, height |-> height]

\* 'Max Width Constraint (from config)'
MaxWidthConstraint(size) ==
    IF size.width > IMAGE_MAX_WIDTH
    THEN Size(IMAGE_MAX_WIDTH, IntOfScaled(size.height, IMAGE_MAX_WIDTH, size.width))
    ELSE size

\* width_hwp, height_hwp before the max width constraint
SizeFromAttrs(w_parsed, h_parsed, file) ==
    LET w == w_parsed # NotParsed
        h == h_parsed # NotParsed
        \* 'Default Size (from config)', then the attributes
        width_hwp == IF w THEN w_parsed ELSE IMAGE_DEFAULT_WIDTH
        height_hwp == IF w /\ h THEN h_parsed ELSE IMAGE_DEFAULT_HEIGHT
        should_read_file == ~w \/ ~h
        image_found == file # NoFile
        calc_w == PxToLunit(file.px_width)
        calc_h == PxToLunit(file.px_height)
    IN  IF should_read_file /\ image_found
        THEN IF ~w /\ ~h THEN Size(calc_w, calc_h)
             ELSE IF w /\ ~h
             THEN Size(width_hwp, IntOf(w_parsed * file.px_height, file.px_width))
             ELSE Size(IntOf(h_parsed * file.px_width, file.px_height), height_hwp)
        ELSE Size(width_hwp, height_hwp)

SzIdle == [pc |-> "idle", w_parsed |-> NotParsed, h_parsed |-> NotParsed,
           file |-> NoFile, size |-> Size(0, 0)]

\* _handle_image_elem from the attributes to width and height
ResolveSize ==
    /\ sz.pc = "attrs"
    /\ sz' = [sz EXCEPT !.pc = "resolved",
                        !.size = MaxWidthConstraint(
                                     SizeFromAttrs(sz.w_parsed, sz.h_parsed, sz.file))]
    /\ UNCHANGED notSizeVars

\* ---------------------------------------------------------------------
\* convert_to_hwpx and the file at the output path
\* ---------------------------------------------------------------------

MaxEntries == 3

\* the steps of convert_to_hwpx in the order of its body: '1. Validate
\* inputs', '2. Read Reference', '3. Convert Logic' (the constructor, then
\* convert()), '4. Write Output'
PhaseAfterWriteFirst(phase) ==
    CASE phase = "validate" -> "read"
      [] phase = "read" -> "construct"
      [] phase = "construct" -> "write"
      [] phase = "write" -> "convert"
      [] OTHER -> "done"

PhaseAfter(phase) ==
    CASE phase = "validate" -> "read"
      [] phase = "read" -> "construct"
      [] phase = "construct" -> "convert"
      [] phase = "convert" -> "write"
      [] OTHER -> "done"

\* the steps that run before anything is written
EarlyPhases == {"validate", "read", "construct", "convert"}

\* where a conversion fails: nowhere, in one of the steps before the
\* writing, when the reference bytes are opened as an archive, or while the
\* entries are written
Faults == {"none"} \cup EarlyPhases \cup {"open_reference", "write"}

\* the file at the output path: there is none, or one of an earlier run
NoOutputFile == [exists |-> FALSE, content |-> "none", entries |-> 0, closed |-> TRUE]

EarlierOutputFile == [exists |-> TRUE, content |-> "earlier", entries |-> 0, closed |-> TRUE]

\* zipfile.ZipFile(output_path, 'w', zipfile.ZIP_DEFLATED): the file is
\* created, or cut to nothing
OpenedForWriting == [exists |-> TRUE, content |-> "new", entries |-> 0, closed |-> FALSE]

OutIdle == [phase |-> "idle", fault |-> "none", fail_at |-> 0, to_write |-> 0,
            before |-> NoOutputFile, file |-> NoOutputFile, done |-> <<>>,
            raised_in |-> "none"]

\* a step before the writing returns
RunPhase ==
    /\ out.phase \in EarlyPhases
    /\ out.fault # out.phase
    /\ out' = [out EXCEPT !.phase = PhaseAfter(out.phase), !.done = Append(@, out.phase)]
    /\ UNCHANGED notOutputVars

\* a step before the writing raises; convert_to_hwpx has no handler
FailPhase ==
    /\ out.phase \in EarlyPhases
    /\ out.fault = out.phase
    /\ out' = [out EXCEPT !.phase = "raised", !.raised_in = out.phase]
    /\ UNCHANGED notOutputVars

\* _write_hwpx_output: the reference bytes are opened as an archive, then
\* the output path is opened for writing
OpenOutput ==
    /\ out.phase = "write"
    /\ out.file.closed
    /\ out' = IF out.fault = "open_reference"
              THEN [out EXCEPT !.phase = "raised", !.raised_in = "write"]
              ELSE [out EXCEPT !.file = OpenedForWriting]
    /\ UNCHANGED notOutputVars

\* one more entry is written: an image, or an entry of the reference
WriteEntry ==
    /\ out.phase = "write"
    /\ ~out.file.closed
    /\ out.file.entries < out.to_write
    /\ ~(out.fault = "write" /\ out.file.entries = out.fail_at)
    /\ out' = [out EXCEPT !.file.entries = @ + 1]
    /\ UNCHANGED notOutputVars

\* writing an entry raises: the with statement closes the archive on what
\* is written so far, and the exception is raised again
FailWrite ==
    /\ out.phase = "write"
    /\ ~out.file.closed
    /\ out.fault = "write" /\ out.file.entries = out.fail_at
    /\ out' = [out EXCEPT !.phase = "raised", !.raised_in = "write", !.file.closed = TRUE]
    /\ UNCHANGED notOutputVars

\* every entry is written: the archive is closed
CloseOutput ==
    /\ out.phase = "write"
    /\ ~out.file.closed
    /\ out.file.entries = out.to_write
    /\ out.fault # "write"
    /\ out' = [out EXCEPT !.phase = PhaseAfter("write"), !.file.closed = TRUE,
                          !.done = Append(@, "write")]
    /\ UNCHANGED notOutputVars

\* ---------------------------------------------------------------------
\* Headers in table mode: _handle_header_in_table
\* ---------------------------------------------------------------------

MaxTableHeaders == 2

\* the text of the placeholder cell
PlaceholderText == <<"{{H1}}">>

\* A table of the template: the text of its numbering cell (none: <<>>),
\* the text of its placeholder cell, and whether it carries elements of the
\* template (hp:linesegarray, hp:ctrl, hp:secPr)
TableElem(numbering, placeholder, template_elements) ==
    [numbering |-> numbering, placeholder |-> placeholder,
     template_elements |-> template_elements]

TableTemplates ==
    {TableElem(n, PlaceholderText, e) : n \in {<<>>, TplDigitDot, TplRoman}, e \in BOOLEAN}

\* the characters of the header texts drawn
HeaderChars == {"x", "n", "\\"}

HeaderTexts == {<<c>> : c \in HeaderChars} \cup {<<c, d>> : c, d \in HeaderChars}

ReError == <<"re.error">>

\* the replacement template of re.sub is expanded: \n is a line feed, \\ a
\* backslash, a backslash before another letter or at the end is an error
RECURSIVE ExpandTemplate(_)
ExpandTemplate(repl) ==
    IF repl = <<>> THEN <<>>
    ELSE IF Head(repl) # "\\"
    THEN LET rest == ExpandTemplate(Tail(repl))
         IN  IF rest = ReError THEN ReError ELSE <<Head(repl)>> \o rest
    ELSE IF Len(repl) = 1 THEN ReError
    ELSE LET rest == ExpandTemplate(Tail(Tail(repl)))
         IN  IF rest = ReError THEN ReError
             ELSE IF repl[2] = "n" THEN <<"LF">> \o rest
             ELSE IF repl[2] = "\\" THEN <<"\\">> \o rest
             ELSE ReError

\* HEADER_PATTERN.sub(header_text, text_elem.text)
HeaderPatternSub(header_text, text) ==
    IF ExpandTemplate(header_text) = ReError THEN ReError
    ELSE Replace(text, PlaceholderText, ExpandTemplate(header_text))

\* _find_table_numbering_text: the stripped text of the numbering cell
NumberingText(table) == Strip(table.numbering)

\* _handle_header_in_table: the copy of the table as it is emitted
HeaderInTable(table, header_text, counter) ==
    LET numbering_text == NumberingText(table)
        formatted == FormatCounterText(numbering_text, counter)
    IN  [numbering |-> IF numbering_text # <<>>
                       THEN Replace(table.numbering, numbering_text, formatted)
                       ELSE table.numbering,
         placeholder |-> HeaderPatternSub(header_text, table.placeholder),
         template_elements |-> FALSE]

ThdIdle == [pc |-> "idle", table |-> TableElem(<<>>, <<>>, FALSE),
            stored |-> TableElem(<<>>, <<>>, FALSE), header_counters |-> 0,
            texts |-> <<>>, emitted |-> <<>>]

\* _handle_header for a level whose placeholder has mode table: the counter
\* of the level goes up, the header is emitted from a copy of the table.  An
\* error of re.sub ends the conversion.
HandleHeaderInTable == \E header_text \in HeaderTexts :
    /\ thd.pc = "emitting"
    /\ Len(thd.emitted) < MaxTableHeaders
    /\ LET counter == thd.header_counters + 1
           table_elem == HeaderInTable(thd.table, header_text, counter)
       IN  thd' = [thd EXCEPT
               !.pc = IF table_elem.placeholder = ReError THEN "raised" ELSE @,
               !.header_counters = counter,
               !.texts = Append(@, header_text),
               !.emitted = Append(@, table_elem)]
    /\ UNCHANGED notTableHeaderVars

\* ---------------------------------------------------------------------
\* Specifications
\* ---------------------------------------------------------------------

IdleCounter == fmt = FmtIdle

IdleOutline == tpl = TplNone /\ intro = IntroIdle

IdleStyle ==
    /\ header_root = Header(<<>>, <<>>, <<>>, <<>>, <<>>)
    /\ registry = InitRegistry(Header(<<>>, <<>>, <<>>, <<>>, <<>>))
    /\ body = BodyIdle
    /\ char_pr_calls = <<>>

IdleList == list_styles = {} /\ lst = LstIdle

IdleBlock == blk = BlkIdle

IdleImage == images = <<>> /\ img = ImgIdle /\ ref_zip = <<>> /\ out_zip = <<>>

IdlePrefix == pfx = PfxIdle

IdleLink == lnk = LnkIdle

IdleNormal == nrm = NrmIdle

IdleSkip == skp = SkpIdle

IdleRead == rd = RdIdle

IdleConfig == cfg = CfgIdle

IdleHeaderCount == hdc = HdcIdle

IdleDerive == drv = DrvIdle

IdleTable == tab = TblIdle

IdleInject == inj = InjIdle

IdleScan == scn = ScnIdle

IdleSize == sz = SzIdle

IdleOutput == out = OutIdle

IdleTableHeader == thd = ThdIdle

InitCounter ==
    fmt = FmtIdle /\ IdleOutline /\ IdleStyle /\ IdleList /\ IdleBlock /\ IdleImage
    /\ IdlePrefix
    /\ IdleLink
    /\ IdleNormal
    /\ IdleSkip
    /\ IdleRead
    /\ IdleConfig
    /\ IdleHeaderCount
    /\ IdleDerive
    /\ IdleTable
    /\ IdleInject
    /\ IdleScan
    /\ IdleSize
    /\ IdleOutput
    /\ IdleTableHeader

NextCounter == FormatCounter

SpecCounter == InitCounter /\ [][NextCounter]_vars

InitOutline ==
    /\ tpl \in Templates
    /\ intro = IntroIdle
    /\ IdleCounter /\ IdleStyle /\ IdleList /\ IdleBlock /\ IdleImage
    /\ IdlePrefix
    /\ IdleLink
    /\ IdleNormal
    /\ IdleSkip
    /\ IdleRead
    /\ IdleConfig
    /\ IdleHeaderCount
    /\ IdleDerive
    /\ IdleTable
    /\ IdleInject
    /\ IdleScan
    /\ IdleSize
    /\ IdleOutput
    /\ IdleTableHeader

NextOutline == ParseStyles \/ ConvertAfterParse

SpecOutline == InitOutline /\ [][NextOutline]_vars

\* The state after construction: the header is parsed, the table border
\* fill is appended, the registry is initialised.
InitStyle ==
    /\ \E h \in StyleTemplates :
           /\ header_root = EnsureTableBorderFill(h)
           /\ registry = InitRegistry(h)
    /\ body = [BodyIdle EXCEPT !.pc = "emitting"]
    /\ char_pr_calls = <<>>
    /\ IdleCounter
    /\ IdleOutline
    /\ IdleList
    /\ IdleBlock
    /\ IdleImage
    /\ IdlePrefix
    /\ IdleLink
    /\ IdleNormal
    /\ IdleSkip
    /\ IdleRead
    /\ IdleConfig
    /\ IdleHeaderCount
    /\ IdleDerive
    /\ IdleTable
    /\ IdleInject
    /\ IdleScan
    /\ IdleSize
    /\ IdleOutput
    /\ IdleTableHeader

NextStyle ==
    \/ Para
    \/ HeaderBlock
    \/ ListBlock
    \/ BlockQuote
    \/ HorizontalRule
    \/ CodeBlock
    \/ Table
    \/ ConvertReturns

SpecStyle == InitStyle /\ [][NextStyle]_vars

\* The state after construction on the standard header, the template's list
\* placeholders loaded, the first list of the document not yet met.
InitList ==
    /\ header_root = EnsureTableBorderFill(HeaderStandard)
    /\ registry = InitRegistry(HeaderStandard)
    /\ body = [BodyIdle EXCEPT !.pc = "emitting"]
    /\ char_pr_calls = <<>>
    /\ list_styles \in ListTemplates
    /\ lst = [LstIdle EXCEPT !.pc = "descending"]
    /\ IdleCounter
    /\ IdleOutline
    /\ IdleBlock
    /\ IdleImage
    /\ IdlePrefix
    /\ IdleLink
    /\ IdleNormal
    /\ IdleSkip
    /\ IdleRead
    /\ IdleConfig
    /\ IdleHeaderCount
    /\ IdleDerive
    /\ IdleTable
    /\ IdleInject
    /\ IdleScan
    /\ IdleSize
    /\ IdleOutput
    /\ IdleTableHeader

NextList ==
    \/ EnterList
    \/ ItemPara
    \/ ExitList

SpecList == InitList /\ [][NextList]_vars

\* convert() has called _process_blocks on the blocks of the document and
\* no block is handled yet; the configuration is the caller's.
InitBlock ==
    /\ \E page_break \in BOOLEAN :
           blk = [BlkIdle EXCEPT !.stack = <<BlocksFrame(FALSE)>>,
                                 !.PAGE_BREAK_BEFORE_H1 = page_break]
    /\ IdleCounter
    /\ IdleOutline
    /\ IdleStyle
    /\ IdleList
    /\ IdleImage
    /\ IdlePrefix
    /\ IdleLink
    /\ IdleNormal
    /\ IdleSkip
    /\ IdleRead
    /\ IdleConfig
    /\ IdleHeaderCount
    /\ IdleDerive
    /\ IdleTable
    /\ IdleInject
    /\ IdleScan
    /\ IdleSize
    /\ IdleOutput
    /\ IdleTableHeader

NextBlock ==
    \/ DispatchPara
    \/ QuotedPara
    \/ DispatchHeader
    \/ QuotedHeader
    \/ DispatchUnhandled
    \/ EnterBlockQuote
    \/ ExitBlockQuote

SpecBlock == InitBlock /\ [][NextBlock]_vars

\* The template is read, the converter is constructed with the caller's
\* input path and configuration, no image is met yet.
InitImage ==
    /\ images = <<>>
    /\ \E input_dir \in InputDirs, limit \in ImageLimits :
           img = [ImgIdle EXCEPT !.pc = "converting",
                                 !.input_dir = input_dir,
                                 !.MAX_IMAGE_COUNT = limit]
    /\ ref_zip \in RefArchives
    /\ out_zip = <<>>
    /\ IdleCounter
    /\ IdleOutline
    /\ IdleStyle
    /\ IdleList
    /\ IdleBlock
    /\ IdlePrefix
    /\ IdleLink
    /\ IdleNormal
    /\ IdleSkip
    /\ IdleRead
    /\ IdleConfig
    /\ IdleHeaderCount
    /\ IdleDerive
    /\ IdleTable
    /\ IdleInject
    /\ IdleScan
    /\ IdleSize
    /\ IdleOutput
    /\ IdleTableHeader

NextImage ==
    \/ HandleImage
    \/ WriteOutput

SpecImage == InitImage /\ [][NextImage]_vars

\* One list handled in prefix mode.
InitPrefix ==
    /\ IdleCounter
    /\ IdleOutline
    /\ IdleStyle
    /\ IdleList
    /\ IdleBlock
    /\ IdleImage
    /\ IdlePrefix
    /\ IdleLink
    /\ IdleNormal
    /\ IdleSkip
    /\ IdleRead
    /\ IdleConfig
    /\ IdleHeaderCount
    /\ IdleDerive
    /\ IdleTable
    /\ IdleInject
    /\ IdleScan
    /\ IdleSize
    /\ IdleOutput
    /\ IdleTableHeader

NextPrefix ==
    \/ EnterPrefixList
    \/ NextItem
    \/ PrefixPara
    \/ PrefixOtherBlock
    \/ PrefixListReturns

SpecPrefix == InitPrefix /\ [][NextPrefix]_vars

\* The inlines of one paragraph, with its links and footnotes.
InitLink ==
    /\ IdleCounter
    /\ IdleOutline
    /\ IdleStyle
    /\ IdleList
    /\ IdleBlock
    /\ IdleImage
    /\ IdlePrefix
    /\ IdleLink
    /\ IdleNormal
    /\ IdleSkip
    /\ IdleRead
    /\ IdleConfig
    /\ IdleHeaderCount
    /\ IdleDerive
    /\ IdleTable
    /\ IdleInject
    /\ IdleScan
    /\ IdleSize
    /\ IdleOutput
    /\ IdleTableHeader

NextLink ==
    \/ Tick
    \/ LinkBegin
    \/ LinkText
    \/ NoteBegin
    \/ NoteEnd
    \/ LinkEnd

SpecLink == InitLink /\ [][NextLink]_vars

\* The introspection of a template whose Normal style is as drawn.
InitNormal ==
    /\ \E ref \in NormalCharRefs, kids \in SUBSET CharPrTags, type \in UnderlineTypes :
           nrm = [pc |-> "new", ref |-> ref, charPrs |-> NormalCharPrs(kids, type),
                  error |-> "none"]
    /\ IdleCounter
    /\ IdleOutline
    /\ IdleStyle
    /\ IdleList
    /\ IdleBlock
    /\ IdleImage
    /\ IdlePrefix
    /\ IdleLink
    /\ IdleSkip
    /\ IdleRead
    /\ IdleConfig
    /\ IdleHeaderCount
    /\ IdleDerive
    /\ IdleTable
    /\ IdleInject
    /\ IdleScan
    /\ IdleSize
    /\ IdleOutput
    /\ IdleTableHeader

NextNormal == CheckNormalStyle

SpecNormal == InitNormal /\ [][NextNormal]_vars

\* A document with paragraphs, a quote, a list and unhandled nodes among them.
InitSkip ==
    /\ header_root = EnsureTableBorderFill(HeaderStandard)
    /\ registry = InitRegistry(HeaderStandard)
    /\ body = [BodyIdle EXCEPT !.pc = "emitting"]
    /\ char_pr_calls = <<>>
    /\ skp = [pc |-> "blocks", steps |-> 0, num_id |-> 0, raised |-> FALSE,
              plain |-> State(EnsureTableBorderFill(HeaderStandard),
                              InitRegistry(HeaderStandard),
                              [BodyIdle EXCEPT !.pc = "emitting"], <<>>),
              plain_num_id |-> 0]
    /\ IdleCounter
    /\ IdleOutline
    /\ IdleList
    /\ IdleBlock
    /\ IdleImage
    /\ IdlePrefix
    /\ IdleLink
    /\ IdleNormal
    /\ IdleRead
    /\ IdleConfig
    /\ IdleHeaderCount
    /\ IdleDerive
    /\ IdleTable
    /\ IdleInject
    /\ IdleScan
    /\ IdleSize
    /\ IdleOutput
    /\ IdleTableHeader

NextSkip ==
    \/ SkipPara
    \/ SkipUnhandledBlock
    \/ SkipUnhandledInline
    \/ SkipQuotedPara
    \/ SkipQuotedUnhandled
    \/ SkipEnterList
    \/ SkipItemPara
    \/ SkipItemUnhandled
    \/ SkipExitList

SpecSkip == InitSkip /\ [][NextSkip]_vars

\* One call of convert_to_hwpx on a template as drawn.
InitRead ==
    /\ \E template \in TemplateFiles, json_ast \in BOOLEAN :
           rd = [RdIdle EXCEPT !.pc = "called", !.template = template,
                               !.json_ast = json_ast]
    /\ IdleCounter
    /\ IdleOutline
    /\ IdleStyle
    /\ IdleList
    /\ IdleBlock
    /\ IdleImage
    /\ IdlePrefix
    /\ IdleLink
    /\ IdleNormal
    /\ IdleSkip
    /\ IdleConfig
    /\ IdleHeaderCount
    /\ IdleDerive
    /\ IdleTable
    /\ IdleInject
    /\ IdleScan
    /\ IdleSize
    /\ IdleOutput
    /\ IdleTableHeader

NextRead ==
    \/ ValidateInputs
    \/ ReadTemplate
    \/ Construct
    \/ ConvertBody
    \/ WriteHwpxOutput

SpecRead == InitRead /\ [][NextRead]_vars

\* One call of convert_string with a config, or with none.
InitConfig ==
    /\ \E argument \in Configs \cup {None} :
           cfg = [CfgIdle EXCEPT !.pc = "called", !.argument = argument]
    /\ IdleCounter
    /\ IdleOutline
    /\ IdleStyle
    /\ IdleList
    /\ IdleBlock
    /\ IdleImage
    /\ IdlePrefix
    /\ IdleLink
    /\ IdleNormal
    /\ IdleSkip
    /\ IdleRead
    /\ IdleHeaderCount
    /\ IdleDerive
    /\ IdleTable
    /\ IdleInject
    /\ IdleScan
    /\ IdleSize
    /\ IdleOutput
    /\ IdleTableHeader

NextConfig ==
    \/ ResolveConfig
    \/ NewConverter
    \/ ReadSetting

SpecConfig == InitConfig /\ [][NextConfig]_vars

\* A document of headers, converted with a template that has a placeholder
\* for some of the levels.
InitHeaderCount ==
    /\ \E placeholder_styles \in SUBSET (1..MaxCounterLevel) :
           hdc = [HdcIdle EXCEPT !.pc = "emitting",
                                 !.placeholder_styles = placeholder_styles]
    /\ IdleCounter
    /\ IdleOutline
    /\ IdleStyle
    /\ IdleList
    /\ IdleBlock
    /\ IdleImage
    /\ IdlePrefix
    /\ IdleLink
    /\ IdleNormal
    /\ IdleSkip
    /\ IdleRead
    /\ IdleConfig
    /\ IdleDerive
    /\ IdleTable
    /\ IdleInject
    /\ IdleScan
    /\ IdleSize
    /\ IdleOutput
    /\ IdleTableHeader

NextHeaderCount == HandleHeaderCounters

SpecHeaderCount == InitHeaderCount /\ [][NextHeaderCount]_vars

\* Calls of _get_char_pr_id on a header whose character shapes carry
\* children.
InitDerive ==
    /\ header_root = EnsureTableBorderFill(HeaderFormatted)
    /\ registry = InitRegistry(HeaderFormatted)
    /\ body = [BodyIdle EXCEPT !.pc = "emitting"]
    /\ char_pr_calls = <<>>
    /\ IdleCounter
    /\ IdleOutline
    /\ IdleList
    /\ IdleBlock
    /\ IdleImage
    /\ IdlePrefix
    /\ IdleLink
    /\ IdleNormal
    /\ IdleSkip
    /\ IdleRead
    /\ IdleConfig
    /\ IdleHeaderCount
    /\ IdleDerive
    /\ IdleTable
    /\ IdleInject
    /\ IdleScan
    /\ IdleSize
    /\ IdleOutput
    /\ IdleTableHeader

NextDerive == DeriveCharPr

SpecDerive == InitDerive /\ [][NextDerive]_vars

\* The column widths of one table, from the separator row of the markdown.
InitWidths ==
    /\ \E col_cnt \in 1..MaxCols, template_table_width \in TemplateTableWidths :
       \E col_dashes \in [1..col_cnt -> 0..MaxDashes] :
           tab = [TblIdle EXCEPT !.pc = "markdown", !.col_dashes = col_dashes,
                                 !.template_table_width = template_table_width]
    /\ IdleCounter
    /\ IdleOutline
    /\ IdleStyle
    /\ IdleList
    /\ IdleBlock
    /\ IdleImage
    /\ IdlePrefix
    /\ IdleLink
    /\ IdleNormal
    /\ IdleSkip
    /\ IdleRead
    /\ IdleConfig
    /\ IdleHeaderCount
    /\ IdleDerive
    /\ IdleInject
    /\ IdleScan
    /\ IdleSize
    /\ IdleOutput
    /\ IdleTableHeader

NextWidths ==
    \/ ColSpecs
    \/ ColumnWidths

SpecWidths == InitWidths /\ [][NextWidths]_vars

\* the separator rows of the tables whose cells are walked: no dashes
\* counted, or 3, 5, 2 dashes in turn
WalkedDashes(col_cnt) ==
    {[i \in 1..col_cnt |-> 0], [i \in 1..col_cnt |-> <<3, 5, 2>>[((i - 1) % 3) + 1]]}

\* The rows and cells of one table.
InitTable ==
    /\ \E col_cnt \in 1..MaxCols, header_row_count \in 0..1,
          body_row_count \in BodyRowCounts :
       \E col_dashes \in WalkedDashes(col_cnt) :
           /\ header_row_count + body_row_count > 0
           /\ LET specs == [i \in 1..col_cnt |-> GetColWidthInfo(col_dashes, i)]
              IN  tab = [TblIdle EXCEPT
                      !.pc = "rows", !.col_dashes = col_dashes, !.specs = specs,
                      !.header_row_count = header_row_count,
                      !.body_row_count = body_row_count,
                      !.col_widths = ColWidths(specs, TotalTableWidth(NoTableWidth))]
    /\ IdleCounter
    /\ IdleOutline
    /\ IdleStyle
    /\ IdleList
    /\ IdleBlock
    /\ IdleImage
    /\ IdlePrefix
    /\ IdleLink
    /\ IdleNormal
    /\ IdleSkip
    /\ IdleRead
    /\ IdleConfig
    /\ IdleHeaderCount
    /\ IdleDerive
    /\ IdleInject
    /\ IdleScan
    /\ IdleSize
    /\ IdleOutput
    /\ IdleTableHeader

NextTable ==
    \/ EmitCell
    \/ NextRow

SpecTable == InitTable /\ [][NextTable]_vars

\* One conversion of a document, with or without a page setup.
InitInject ==
    /\ \E page_setup_xml \in {NoPageSetup, PageSetupXml} :
           inj = [InjIdle EXCEPT !.pc = "blocks", !.page_setup_xml = page_setup_xml]
    /\ IdleCounter
    /\ IdleOutline
    /\ IdleStyle
    /\ IdleList
    /\ IdleBlock
    /\ IdleImage
    /\ IdlePrefix
    /\ IdleLink
    /\ IdleNormal
    /\ IdleSkip
    /\ IdleRead
    /\ IdleConfig
    /\ IdleHeaderCount
    /\ IdleDerive
    /\ IdleTable
    /\ IdleScan
    /\ IdleSize
    /\ IdleOutput
    /\ IdleTableHeader

NextInject ==
    \/ ProcessBlock
    \/ Convert

SpecInject == InitInject /\ [][NextInject]_vars

\* The section of one template: its text nodes in document order, each in a
\* cell of a table or in a paragraph of the body.
InitScan ==
    /\ \E n \in 1..MaxTexts :
       \E nodes \in [1..n -> [in_table : BOOLEAN, text : Texts]] :
           scn = [ScnIdle EXCEPT !.pc = "section", !.nodes = nodes]
    /\ IdleCounter
    /\ IdleOutline
    /\ IdleStyle
    /\ IdleList
    /\ IdleBlock
    /\ IdleImage
    /\ IdlePrefix
    /\ IdleLink
    /\ IdleNormal
    /\ IdleSkip
    /\ IdleRead
    /\ IdleConfig
    /\ IdleHeaderCount
    /\ IdleDerive
    /\ IdleTable
    /\ IdleInject
    /\ IdleSize
    /\ IdleOutput
    /\ IdleTableHeader

NextScan ==
    \/ ScanTables
    \/ ScanParagraphs

SpecScan == InitScan /\ [][NextScan]_vars

\* One Image inline whose path is valid, under the count limit.
InitSize ==
    /\ \E w_parsed \in ParsedWidths, h_parsed \in ParsedHeights, file \in ImageFiles :
           sz = [SzIdle EXCEPT !.pc = "attrs", !.w_parsed = w_parsed,
                               !.h_parsed = h_parsed, !.file = file]
    /\ IdleCounter
    /\ IdleOutline
    /\ IdleStyle
    /\ IdleList
    /\ IdleBlock
    /\ IdleImage
    /\ IdlePrefix
    /\ IdleLink
    /\ IdleNormal
    /\ IdleSkip
    /\ IdleRead
    /\ IdleConfig
    /\ IdleHeaderCount
    /\ IdleDerive
    /\ IdleTable
    /\ IdleInject
    /\ IdleScan
    /\ IdleOutput
    /\ IdleTableHeader

NextSize ==
    \/ ResolveSize

SpecSize == InitSize /\ [][NextSize]_vars

\* One call of convert_to_hwpx: what is at the output path, how many
\* entries there are to write, and where the call fails if it does.
InitOutput ==
    /\ \E before \in {NoOutputFile, EarlierOutputFile}, fault \in Faults,
          to_write \in 1..MaxEntries :
       \E fail_at \in 0..(to_write - 1) :
           out = [OutIdle EXCEPT !.phase = "validate", !.fault = fault,
                                 !.fail_at = IF fault = "write" THEN fail_at ELSE 0,
                                 !.to_write = to_write,
                                 !.before = before, !.file = before]
    /\ IdleCounter
    /\ IdleOutline
    /\ IdleStyle
    /\ IdleList
    /\ IdleBlock
    /\ IdleImage
    /\ IdlePrefix
    /\ IdleLink
    /\ IdleNormal
    /\ IdleSkip
    /\ IdleRead
    /\ IdleConfig
    /\ IdleHeaderCount
    /\ IdleDerive
    /\ IdleTable
    /\ IdleInject
    /\ IdleScan
    /\ IdleSize
    /\ IdleTableHeader

NextOutput ==
    \/ RunPhase
    \/ FailPhase
    \/ OpenOutput
    \/ WriteEntry
    \/ FailWrite
    \/ CloseOutput

SpecOutput == InitOutput /\ [][NextOutput]_vars

\* The H1 headers of a document whose template has {{H1}} in a table.
InitTableHeader ==
    /\ \E table \in TableTemplates :
           thd = [ThdIdle EXCEPT !.pc = "emitting", !.table = table, !.stored = table]
    /\ IdleCounter
    /\ IdleOutline
    /\ IdleStyle
    /\ IdleList
    /\ IdleBlock
    /\ IdleImage
    /\ IdlePrefix
    /\ IdleLink
    /\ IdleNormal
    /\ IdleSkip
    /\ IdleRead
    /\ IdleConfig
    /\ IdleHeaderCount
    /\ IdleDerive
    /\ IdleTable
    /\ IdleInject
    /\ IdleScan
    /\ IdleSize
    /\ IdleOutput

NextTableHeader ==
    \/ HandleHeaderInTable

SpecTableHeader == InitTableHeader /\ [][NextTableHeader]_vars

\* ---------------------------------------------------------------------
\* Properties of counter formatting
\* ---------------------------------------------------------------------

\* The k-th Roman numeral, composed from its tens and its ones.
RomanOnesOf(d) ==
    CASE d = 0 -> <<>>
      [] d \in 1..3 -> [i \in 1..d |-> "I"]
      [] d = 4 -> <<"I", "V">>
      [] d \in 5..8 -> <<"V">> \o [i \in 1..(d - 5) |-> "I"]
      [] d = 9 -> <<"I", "X">>

RomanOf(k) == [i \in 1..(k \div 10) |-> "X"] \o RomanOnesOf(k % 10)

RECURSIVE DecValue(_)
DecValue(s) ==
    IF s = <<>> THEN 0
    ELSE 10 * DecValue(SubSeq(s, 1, Len(s) - 1))
         + (CHOOSE d \in 0..9 : Digits[d + 1] = s[Len(s)])

AllDigits(s) == s # <<>> /\ \A i \in 1..Len(s) : IsDigit(s[i])

ClaimedCounters == 1..20

DiscoveredLevels == Range(intro.detected)

Contiguous(S) == S = {} \/ \E k \in 0..MaxOutlineLevel : S = 0..k

\* C4 (as claimed): introspection passes the outline check exactly when the
\* discovered levels are empty or {0..k}; otherwise it fails with a StyleError
\* that mentions the gap, and no body is emitted.
C4_AsClaimed ==
    intro.pc # "new" =>
        /\ (intro.pc = "parsed") <=> Contiguous(DiscoveredLevels)
        /\ ~Contiguous(DiscoveredLevels) =>
               /\ intro.pc = "failed"
               /\ intro.error.type = "StyleError"
               /\ intro.error.found \in DiscoveredLevels
               /\ intro.error.expected \notin DiscoveredLevels
               /\ ~intro.bodyEmitted

\* ---------------------------------------------------------------------
\* Properties of the style registry
\* ---------------------------------------------------------------------

DerivingKeys == {key \in DOMAIN char_pr_calls : key[2] # {}}

\* C1 -- cache determinism: all the calls of _get_char_pr_id with one
\* (base id, non-empty format set) return one id and together append one
\* charPr node, and calls whose keys differ return different ids.
C1_AsClaimed ==
    \A k1 \in DerivingKeys :
        /\ Cardinality(char_pr_calls[k1].ids) = 1
        /\ char_pr_calls[k1].appended = 1
        /\ \A k2 \in DOMAIN char_pr_calls :
               k1 # k2 => char_pr_calls[k1].ids \cap char_pr_calls[k2].ids = {}

Collections == {"charProperties", "paraProperties", "numberings", "borderFills"}

ListParaPrs ==
    {header_root.paraProperties[i] : i \in 1..Len(header_root.paraProperties)}

\* C2 -- header integrity: when the header is written, every style,
\* paragraph-shape and character-shape id the body refers to, every
\* border fill id of a table or cell, and every numbering id a derived list
\* paragraph shape refers to is the id of a node of the header.
C2_AsClaimed ==
    body.pc = "returned" =>
        /\ body.refs.styleRefs \subseteq Ids(header_root.styles)
        /\ body.refs.paraRefs \subseteq Ids(header_root.paraProperties)
        /\ body.refs.charRefs \subseteq Ids(header_root.charProperties)
        /\ body.refs.borderRefs \subseteq Ids(header_root.borderFills)
        /\ \A n \in ListParaPrs :
               n.headingType = "NUMBER" => n.idRef \in Ids(header_root.numberings)

\* C3 -- when convert() returns, the itemCnt of each of the four header
\* collections is the number of its child nodes, whatever was derived
\* during construction and emission.
C3_ItemCnt ==
    body.pc = "returned" =>
        \A c \in Collections : header_root.itemCnt[c] = Len(header_root[c])

\* convert() has returned after a character shape, a quote's paragraph shape
\* and a list's numbering and paragraph shape were derived.
C3_Witness ==
    /\ body.pc = "returned"
    /\ DOMAIN registry.char_pr_cache # {}
    /\ DOMAIN registry.blockquote_para_pr_cache # {}
    /\ \E n \in ListParaPrs : n.headingType = "NUMBER"
    /\ \A c \in Collections : header_root.itemCnt[c] = Len(header_root[c])

\* ---------------------------------------------------------------------
\* Properties of nested lists
\* ---------------------------------------------------------------------

Min(a, b) == IF a <= b THEN a ELSE b

\* C9 -- however deep the lists are nested, every derived list paragraph
\* shape has a level of at most MAX_NESTING_DEPTH - 1, and a list handler
\* works at the level of its depth, or at MAX_NESTING_DEPTH - 1 when its
\* depth is MAX_NESTING_DEPTH or more; no handler aborts the emission.
C9_DepthCap ==
    /\ body.pc = "emitting"
    /\ \A n \in ListParaPrs :
           n.headingType = "NUMBER" => n.level <= MAX_NESTING_DEPTH - 1
    /\ \A i \in 1..Len(lst.stack) :
           lst.stack[i].level = Min(lst.stack[i].depth, MAX_NESTING_DEPTH - 1)

\* a list 25 deep: the handler on top works at the capped level and has
\* derived a paragraph shape at that level
C9_Witness ==
    /\ Len(lst.stack) = 25
    /\ Top.depth > MAX_NESTING_DEPTH
    /\ Top.level = MAX_NESTING_DEPTH - 1
    /\ \E n \in ListParaPrs :
           n.headingType = "NUMBER" /\ n.level = MAX_NESTING_DEPTH - 1
                                    /\ n.idRef = Top.num_id

\* ---------------------------------------------------------------------
\* Properties of the page break
\* ---------------------------------------------------------------------

\* C10 -- the paragraph of a Header has pageBreak 1 exactly when its level
\* is 1, PAGE_BREAK_BEFORE_H1 is set and the document holds a paragraph
\* emitted before it; the paragraph of any other block has pageBreak 0.
C10_AsClaimed ==
    /\ blk.last.type = "Header" =>
           (blk.last.pageBreak = 1 <=>
                /\ blk.last.level = 1
                /\ blk.PAGE_BREAK_BEFORE_H1
                /\ blk.last.before > 0)
    /\ blk.last.type = "Para" => blk.last.pageBreak = 0

\* ---------------------------------------------------------------------
\* Properties of images and of the output archive
\* ---------------------------------------------------------------------

Listed(url) == \E i \in 1..Len(images) : images[i].path = url

\* C6 -- an image whose URL is absolute or holds a '..' segment is skipped:
\* the run emitted for it is the placeholder text and the images list does
\* not hold it.
C6_AsClaimed ==
    \A url \in ImageUrls :
        (url.abs \/ RawPartsTraverse(url)) =>
            /\ ~Listed(url)
            /\ img.last.url = url => img.last.run = "[Image: url]"

OutNames == {out_zip[i].name : i \in 1..Len(out_zip)}

RefNames == {ref_zip[i].name : i \in 1..Len(ref_zip)}

BodyPics ==
    LET xml_body == Read(out_zip, SectionName).items
    IN  {xml_body[i].id : i \in 1..Len(xml_body)}

ManifestIds ==
    IF ManifestName \in OutNames
    THEN LET items == Read(out_zip, ManifestName).items
         IN  {items[i].id : i \in 1..Len(items)}
    ELSE {}

\* C7 -- in the written archive every image the body refers to has an item
\* of its id in the manifest and an entry BinData/<id>.<ext>.
C7_AsClaimed ==
    img.pc = "written" =>
        \A i \in 1..Len(images) :
            images[i].id \in BodyPics =>
                /\ images[i].id \in ManifestIds
                /\ BinDataName(images[i]) \in OutNames

Replaced == {HeaderName, SectionName, ManifestName}

\* C8 -- every entry of the reference other than header.xml, section0.xml
\* and content.hpf is in the output under its name with its content, and
\* every entry of the output that the reference does not name is the
\* BinData entry of an image of the images list.
C8_ZipPreservation ==
    img.pc = "written" =>
        /\ \A i \in 1..Len(ref_zip) :
               ref_zip[i].name \notin Replaced =>
                   \E j \in 1..Len(out_zip) : out_zip[j] = ref_zip[i]
        /\ \A j \in 1..Len(out_zip) :
               out_zip[j].name \notin RefNames =>
                   \E i \in 1..Len(images) : out_zip[j].name = BinDataName(images[i])

\* an archive is written that holds the BinData entry of an embedded image
\* before the copied entries of the reference
C8_Witness ==
    /\ img.pc = "written"
    /\ Len(images) = 2
    /\ Len(out_zip) > Len(ref_zip)
    /\ out_zip[1].name.dir = "BinData"
    /\ out_zip[1].name \notin RefNames
    /\ \E j \in 1..Len(out_zip) : out_zip[j].name = Name("BinData", <<"logo">>, "png")

\* ---------------------------------------------------------------------
\* Prefix-mode lists: the prefix of the k-th item
\* ---------------------------------------------------------------------

\* the first paragraph emitted for an item
FirstOfItem(elements, i) ==
    \A j \in 1..(i - 1) : elements[j].item # elements[i].item

\* C11: in an ordered list handled in prefix mode with start s, the k-th
\* item is emitted with the prefix formatted with the counter s + k - 1, the
\* counter advancing once per list item however many blocks the item holds;
\* in a bullet list every paragraph carries the prefix literally.
C11_AsClaimed ==
    /\ \A i \in 1..Len(pfx.elements) :
          LET e == pfx.elements[i]
          IN  IF pfx.type = "BULLET" THEN e.prefix = pfx.prefix
              ELSE FirstOfItem(pfx.elements, i)
                       => e.prefix = FormatCounterText(pfx.prefix,
                                                       pfx.start_num + e.item - 1)
    /\ pfx.pc = "returned" /\ pfx.type = "ORDERED"
           => pfx.item_counter = pfx.start_num + pfx.item

\* ---------------------------------------------------------------------
\* Hyperlink fields: the pairing of field begin and field end
\* ---------------------------------------------------------------------

\* the positions of the runs of one kind emitted for one Link
RunsOf(kind, link) ==
    {i \in 1..Len(lnk.runs) : lnk.runs[i].kind = kind /\ lnk.runs[i].link = link}

\* C12: for every Link the field-begin run comes first, then the runs of the
\* link text, then the field-end run, and the beginIDRef of the field-end run
\* is the id of the field-begin run of that same Link, also for a Link whose
\* text holds a footnote that holds a Link and for links that follow each
\* other at once.
C12_AsClaimed ==
    \A link \in 1..lnk.links :
        /\ Cardinality(RunsOf("fieldBegin", link)) = 1
        /\ \A b \in RunsOf("fieldBegin", link), t \in RunsOf("text", link) : b < t
        /\ \A t \in RunsOf("text", link), e \in RunsOf("fieldEnd", link) : t < e
        /\ \A b \in RunsOf("fieldBegin", link), e \in RunsOf("fieldEnd", link) :
               b < e /\ lnk.runs[e].id = lnk.runs[b].id

\* ---------------------------------------------------------------------
\* Introspection: the Normal character shape
\* ---------------------------------------------------------------------

\* the charPr the Normal style refers to carries one of the five children
CarriesFormatting ==
    \E i \in 1..Len(nrm.charPrs) :
        /\ nrm.charPrs[i].id = (IF nrm.ref = NoNormalStyle THEN 0 ELSE nrm.ref)
        /\ nrm.charPrs[i].kids \cap
               {"bold", "italic", "underline", "supscript", "subscript"} # {}

\* C13: introspection fails with a StyleError whenever the charPr the Normal
\* style refers to carries a bold, italic, underline, supscript or subscript
\* child, and passes the check otherwise.
C13_AsClaimed ==
    nrm.pc \in {"parsed", "failed"} =>
        IF CarriesFormatting
        THEN nrm.pc = "failed" /\ nrm.error = "StyleError"
        ELSE nrm.pc = "parsed"

\* ---------------------------------------------------------------------
\* Unhandled blocks and inlines
\* ---------------------------------------------------------------------

\* C14: a block or inline of an unhandled type is skipped without raising;
\* the conversion goes on and the emitted body is the same as if the node
\* were absent.
C14_AsClaimed ==
    skp.pc \in {"blocks", "item"} =>
        /\ ~skp.raised
        /\ body.refs = skp.plain.body.refs

\* ---------------------------------------------------------------------
\* Malformed template XML
\* ---------------------------------------------------------------------

\* the template is read as far as its XML and one of the two is malformed
MalformedXml ==
    /\ rd.template.header # "missing" /\ rd.template.section # "missing"
    /\ rd.template.header = "malformed" \/ rd.template.section = "malformed"

\* C15: when the header XML or the section XML of the template is
\* malformed, the conversion aborts with a TemplateError and writes no
\* output; it never goes on with a partially introspected template.
C15_AsClaimed ==
    MalformedXml =>
        /\ rd.pc \notin {"constructed", "converted", "returned"}
        /\ ~rd.written
        /\ rd.pc = "raised" => rd.error \in {"TemplateError", "ConversionError", "SecurityError"}

\* ---------------------------------------------------------------------
\* The configuration of a conversion
\* ---------------------------------------------------------------------

\* C16: the ConversionConfig passed to convert_string or convert_to_hwpx
\* governs the whole conversion: every setting a handler reads is that of
\* the config passed, and that of DEFAULT_CONFIG only when none was passed.
C16_AsClaimed ==
    \A setting \in DOMAIN cfg.read :
        cfg.read[setting] = IF cfg.argument = None THEN DEFAULT_CONFIG[setting]
                            ELSE cfg.argument[setting]

\* ---------------------------------------------------------------------
\* Header counters
\* ---------------------------------------------------------------------

\* the position of the most recent header shallower than the last one
\* handled, 0 when there is none
LastShallower(levels) ==
    LET n == Len(levels)
        S == {i \in 1..(n - 1) : levels[i] < levels[n]}
    IN  IF S = {} THEN 0 ELSE CHOOSE i \in S : \A j \in S : j <= i

\* the headers of the level of the last one handled, since that position
\* and before the last one
SameLevelSince(levels) ==
    {i \in (LastShallower(levels) + 1)..(Len(levels) - 1) : levels[i] = levels[Len(levels)]}

\* C17: the counter of a header whose level L has an H<L> placeholder is 1 +
\* the number of level-L headers since the most recent header of a
\* shallower level (or the start); a header of level M clears the counters
\* of the deeper levels and leaves those of the shallower levels unchanged.
C17_HeaderCounters ==
    [][hdc'.levels # hdc.levels =>
          LET level == hdc'.levels[Len(hdc'.levels)]
          IN  /\ level \in hdc.placeholder_styles =>
                     hdc'.counter = 1 + Cardinality(SameLevelSince(hdc'.levels))
              /\ \A deeper \in DOMAIN hdc'.header_counters : deeper <= level
              /\ \A l \in 1..(level - 1) :
                     /\ l \in DOMAIN hdc'.header_counters <=> l \in DOMAIN hdc.header_counters
                     /\ l \in DOMAIN hdc.header_counters =>
                            hdc'.header_counters[l] = hdc.header_counters[l]]_vars

\* a level-2 header that starts again at 1 after a level-1 header, two
\* level-1 headers and an earlier level-2 header having been counted
C17_Witness ==
    /\ hdc.placeholder_styles = {1, 2}
    /\ Len(hdc.levels) = 4
    /\ hdc.levels = <<1, 2, 1, 2>>
    /\ hdc.counter = 1
    /\ hdc.header_counters[1] = 2

\* ---------------------------------------------------------------------
\* The caches of the derived paragraph shapes
\* ---------------------------------------------------------------------

\* the paragraph shapes derived during the conversion: those behind the
\* shapes of the template
DerivedParaPrs ==
    {i \in 1..Len(header_root.paraProperties) :
        header_root.paraProperties[i].id > MaxId(HeaderStandard.paraProperties)}

\* what a derivation writes into the copy of the base node, its key
ShapeOf(node) == [node EXCEPT !.id = 0]

\* C18: each of the three paragraph-shape derivations (aligned, block
\* quote, list) is cached by its key: a call with a key already used returns
\* the id minted before and appends no node, so no two derived nodes stand
\* for one key and their number is bounded by the number of distinct keys.
C18_AsClaimed ==
    \A i, j \in DerivedParaPrs :
        i # j => ShapeOf(header_root.paraProperties[i])
                     # ShapeOf(header_root.paraProperties[j])

\* ---------------------------------------------------------------------
\* Headers emitted through the outline styles
\* ---------------------------------------------------------------------

\* dynamic_style_map[hwpx_level] as the introspection records it: the
\* first paraPr of the outline level and the first style that refers to it
OutlineStyleMap(h, hwpx_level) ==
    LET p_id == LevelToParaPr(h, hwpx_level)
        info == ParaPrToStyleInfo(h, p_id)
    IN  [style_id |-> info.id, para_pr_id |-> p_id, char_pr_id |-> info.charPrIDRef]

\* C19: a Header of level L that has no H<L> placeholder is emitted as one
\* paragraph whose styleIDRef, paraPrIDRef and base charPrIDRef are those
\* recorded in the outline style map for L - 1; when the map has no entry
\* for L - 1 the conversion fails.
C19_AsClaimed ==
    [][\A level \in 1..MaxHeaderLevel :
           (CanProcess /\ Processed(HandleHeader(Here, level, Text))) =>
               IF HeaderLevelKnown(Here, level)
               THEN LET entry == OutlineStyleMap(header_root, level - 1)
                    IN  /\ body'.refs.styleRefs = body.refs.styleRefs \cup {entry.style_id}
                        /\ body'.refs.paraRefs = body.refs.paraRefs \cup {entry.para_pr_id}
                        /\ body'.refs.charRefs = body.refs.charRefs \cup {entry.char_pr_id}
               ELSE body'.pc = "ValueError"]_vars

\* ---------------------------------------------------------------------
\* The character shape minted for a set of formats
\* ---------------------------------------------------------------------

\* the node the last call returned the id of
MintedNode == FindNode(header_root.charProperties, drv.id, NoCharNode)

\* the last call minted a node or found one in the cache
Minted == drv.calls > 0 /\ drv.id > MaxId(HeaderFormatted.charProperties)

BlueApplied(node) ==
    /\ node.textColor = "#0000FF"
    /\ "underline" \in node.kids => node.ulColor = "#0000FF"

BaseUnchanged ==
    \A i \in 1..Len(HeaderFormatted.charProperties) :
        header_root.charProperties[i] = HeaderFormatted.charProperties[i]

\* C20 (as claimed): for every base and every non-empty set of formats the
\* minted node has a supscript child and no subscript child when SUPERSCRIPT
\* is in the set, a subscript child and no supscript child when SUBSCRIPT is
\* in the set, the text colour #0000FF and the colour of its underline child,
\* if it has one, #0000FF when COLOR_BLUE is in the set; the base node is
\* left unchanged.
C20_AsClaimed ==
    Minted =>
        /\ "SUPERSCRIPT" \in drv.active_formats =>
               "supscript" \in MintedNode.kids /\ "subscript" \notin MintedNode.kids
        /\ "SUBSCRIPT" \in drv.active_formats =>
               "subscript" \in MintedNode.kids /\ "supscript" \notin MintedNode.kids
        /\ "COLOR_BLUE" \in drv.active_formats => BlueApplied(MintedNode)
        /\ BaseUnchanged

\* C20 (amended): the same, with SUPERSCRIPT taking precedence: the
\* postcondition of SUBSCRIPT holds when SUPERSCRIPT is not in the set, and
\* a set that holds both gives a supscript child and no subscript child.
C20_FlagPostconditions ==
    Minted =>
        /\ "SUPERSCRIPT" \in drv.active_formats =>
               "supscript" \in MintedNode.kids /\ "subscript" \notin MintedNode.kids
        /\ "SUBSCRIPT" \in drv.active_formats /\ "SUPERSCRIPT" \notin drv.active_formats =>
               "subscript" \in MintedNode.kids /\ "supscript" \notin MintedNode.kids
        /\ "COLOR_BLUE" \in drv.active_formats => BlueApplied(MintedNode)
        /\ BaseUnchanged

\* a blue superscript minted from the underlined subscript shape
C20_Witness ==
    /\ Minted
    /\ drv.base_id = 1
    /\ drv.active_formats = {"SUPERSCRIPT", "COLOR_BLUE"}
    /\ MintedNode.kids = {"supscript", "underline"}
    /\ MintedNode.ulColor = "#0000FF"

\* ---------------------------------------------------------------------
\* Tables: properties
\* ---------------------------------------------------------------------

\* C21: every cell of a table is classified HEADER in the first
\* header_row_count rows; in the body the first row is TOP, the last is
\* BOTTOM when there are at least two body rows, the others MIDDLE (a single
\* body row is TOP); its column is LEFT at 0, RIGHT at the last column,
\* CENTER between, LEFT when the table has one column; and its style key is
\* <rowType>_<colType>.
C21_CellStyleKey ==
    \A i \in 1..Len(tab.cells) :
        LET cell == tab.cells[i]
            body_idx == cell.rowAddr - tab.header_row_count
            total_cols == Len(tab.specs)
            rowType == IF cell.rowAddr < tab.header_row_count THEN "HEADER"
                       ELSE IF body_idx = 0 THEN "TOP"
                       ELSE IF tab.body_row_count >= 2
                               /\ body_idx = tab.body_row_count - 1 THEN "BOTTOM"
                       ELSE "MIDDLE"
            colType == IF total_cols = 1 \/ cell.colAddr = 0 THEN "LEFT"
                       ELSE IF cell.colAddr = total_cols - 1 THEN "RIGHT"
                       ELSE "CENTER"
        IN  cell.key = <<rowType, "_", colType>>

\* a table with a header row and three body rows of three columns, walked to
\* its last cell; and a table of a single body row
C21_Witness ==
    /\ Len(tab.cells) > 0
    /\ \E i, j, k \in 1..Len(tab.cells) :
        /\ tab.cells[i].key = <<"HEADER", "_", "LEFT">>
        /\ tab.cells[j].key = <<"MIDDLE", "_", "CENTER">>
        /\ tab.cells[k].key = <<"BOTTOM", "_", "RIGHT">>

\* a table whose only body row is classified TOP
C21_SingleBodyRow ==
    /\ tab.body_row_count = 1
    /\ \E i \in 1..Len(tab.cells) : tab.cells[i].key = <<"TOP", "_", "RIGHT">>

\* the nearest integer to num / den
IntOfRounded(num, den) == (2 * num + den) \div (2 * den)

\* C22: the total is template_table_width when the template gave one and
\* TABLE_WIDTH otherwise; when a column spec carries a proportion, each such
\* column is round(proportion * total) wide; when none does, every column is
\* an equal share of the total.
C22_AsClaimed ==
    tab.pc = "rows" /\ tab.cells = <<>> /\ tab.curr_row_addr = 0 =>
        LET total == IF tab.template_table_width # NoTableWidth
                     THEN tab.template_table_width ELSE TABLE_WIDTH
            proportional == {i \in 1..Len(tab.specs) : tab.specs[i].t = "ColWidth"}
        IN  /\ \A i \in proportional :
                   tab.col_widths[i] = IntOfRounded(tab.specs[i].dashes * total,
                                                    tab.specs[i].total_dashes)
            /\ proportional = {} =>
                   \A i \in 1..Len(tab.specs) :
                       tab.col_widths[i] = total \div Len(tab.specs)

\* the occupied positions when cell i is reached: the rectangles of the
\* cells before it
OccupiedBefore(i) ==
    UNION {Rectangle(tab.cells[j].rowAddr, tab.cells[j].colAddr,
                     tab.cells[j].rowSpan, tab.cells[j].colSpan) : j \in 1..(i - 1)}

\* C23: each cell is anchored at the first column at or after the running
\* column that no earlier cell's rowSpan x colSpan rectangle occupies; no two
\* cells share an anchor and none is anchored inside an earlier span; its
\* width is the sum of the widths of the colSpan columns from its anchor.
C23_Anchors ==
    /\ \A i \in 1..Len(tab.cells) :
        LET cell == tab.cells[i]
        IN  /\ cell.colAddr >= cell.running
            /\ <<cell.rowAddr, cell.colAddr>> \notin OccupiedBefore(i)
            /\ \A c \in cell.running..(cell.colAddr - 1) :
                   <<cell.rowAddr, c>> \in OccupiedBefore(i)
            /\ cell.width = SumSeq([k \in 1..cell.colSpan |->
                                       tab.col_widths[cell.colAddr + k]])
    /\ \A i, j \in 1..Len(tab.cells) :
        i # j => <<tab.cells[i].rowAddr, tab.cells[i].colAddr>>
                 # <<tab.cells[j].rowAddr, tab.cells[j].colAddr>>

\* a cell spanning two rows pushes the first cell of the next row to the
\* right, and that cell spans two columns of different widths
C23_Witness ==
    \E i, j \in 1..Len(tab.cells) :
        /\ i < j
        /\ tab.cells[i].rowSpan = 2 /\ tab.cells[i].colAddr = 0
        /\ tab.cells[j].rowAddr = tab.cells[i].rowAddr + 1
        /\ tab.cells[j].running = 0 /\ tab.cells[j].colAddr = 1
        /\ tab.cells[j].colSpan = 2
        /\ tab.cells[j].width = 22500 + 9000

\* ---------------------------------------------------------------------
\* The image count limit
\* ---------------------------------------------------------------------

\* C24: the images list never holds more than MAX_IMAGE_COUNT images; an
\* Image inline met when MAX_IMAGE_COUNT images are recorded emits a
\* placeholder text run and leaves the images list as it is.
C24_ImageLimit ==
    [][/\ Len(images') <= img'.MAX_IMAGE_COUNT
       /\ (img'.handled = img.handled + 1 /\ Len(images) >= img.MAX_IMAGE_COUNT) =>
              /\ images' = images
              /\ img'.last.run \in {"[Image limit exceeded: url]", "[Image: url]"}]_vars

\* the limit is reached and a further image of a valid path has been met;
\* the archive is then written
C24_Witness ==
    /\ Len(images) = img.MAX_IMAGE_COUNT
    /\ img.handled > Len(images)
    /\ img.last.run = "[Image limit exceeded: url]"
    /\ img.pc = "written"

\* ---------------------------------------------------------------------
\* The page setup in the body
\* ---------------------------------------------------------------------

\* the places of the body where the page setup starts
SetupsIn(xml_body) ==
    {i \in 1..Len(xml_body) : xml_body[i] = PageSetupXml[1]}

\* C25: when the template gave a page setup and the body has a run, the
\* page setup stands in the body exactly once, right after the start tag of
\* the first run, and the rest of the body is as it was; when the body has no
\* run it is returned unchanged and the conversion goes on.
C25_PageSetupOnce ==
    (inj.pc = "converted" /\ inj.page_setup_xml # NoPageSetup) =>
        LET runs == {i \in 1..Len(inj.processed) : inj.processed[i] = StartTag("hp:run", TRUE)}
        IN  IF runs # {}
            THEN LET first == CHOOSE i \in runs : \A j \in runs : i <= j
                     n == Len(inj.page_setup_xml)
                 IN  /\ SetupsIn(inj.xml_body) = {first + 1}
                     /\ SubSeq(inj.xml_body, first + 1, first + n) = inj.page_setup_xml
                     /\ SubSeq(inj.xml_body, 1, first) = SubSeq(inj.processed, 1, first)
                     /\ SubSeq(inj.xml_body, first + n + 1, Len(inj.xml_body))
                            = SubSeq(inj.processed, first + 1, Len(inj.processed))
            ELSE inj.xml_body = inj.processed /\ ~inj.raised

\* a body of a paragraph without a run, then a table, then a paragraph of
\* two runs: the page setup is in the wrapper run of the table
C25_Witness ==
    /\ inj.pc = "converted"
    /\ inj.page_setup_xml = PageSetupXml
    /\ inj.processed = ParaXml(0) \o TableXml \o ParaXml(2)
    /\ SetupsIn(inj.xml_body) = {Len(ParaXml(0)) + 3}

\* a body without a run is returned as it is
C25_NoRun ==
    /\ inj.pc = "converted"
    /\ inj.page_setup_xml = PageSetupXml
    /\ inj.processed = ParaXml(0)
    /\ inj.xml_body = ParaXml(0)

\* ---------------------------------------------------------------------
\* The placeholder scans: properties
\* ---------------------------------------------------------------------

\* C26: a text node the table scan takes as a {{CELL_<KEY>}} placeholder
\* gives a cell style and no entry of placeholders; a text node with a
\* {{LIST_...}} placeholder gives a list style and no entry of placeholders;
\* an {{H<n>}} the table scan installed with mode table is still that entry
\* after the paragraph scan.
C26_AsClaimed ==
    scn.pc = "scanned" =>
        /\ \A i \in 1..Len(scn.nodes) :
               (scn.nodes[i].in_table /\ ContainsCell(scn.nodes[i].text)) =>
                   \A e \in scn.found.placeholders \cup scn.found.list_styles : e.node # i
        /\ \A i \in 1..Len(scn.nodes) :
               SearchPieces(scn.nodes[i].text, ListPattern) # 0 =>
                   \A e \in scn.found.placeholders \cup scn.found.cell_styles : e.node # i
        /\ \A e \in scn.after_tables.placeholders : e \in scn.found.placeholders

\* the second and third parts of C26 hold of every template scanned
ListAndTableHeaderKept ==
    scn.pc = "scanned" =>
        /\ \A i \in 1..Len(scn.nodes) :
               SearchPieces(scn.nodes[i].text, ListPattern) # 0 =>
                   \A e \in scn.found.placeholders \cup scn.found.cell_styles : e.node # i
        /\ \A e \in scn.after_tables.placeholders : e \in scn.found.placeholders

\* ---------------------------------------------------------------------
\* The size of an image: properties
\* ---------------------------------------------------------------------

\* C27: the size of an image is the two attributes when both are parsed;
\* else the missing ones are filled from the pixel size of the file, keeping
\* its aspect ratio; else, without a file, width and height are
\* IMAGE_DEFAULT_WIDTH and IMAGE_DEFAULT_HEIGHT; at last a width over
\* IMAGE_MAX_WIDTH is cut to it and the height scaled by the same factor.
\* So no image is wider than IMAGE_MAX_WIDTH, and a file of 2400 x 1200 px
\* without attributes is IMAGE_MAX_WIDTH wide and half as high.
C27_AsClaimed ==
    sz.pc = "resolved" =>
        LET w == sz.w_parsed
            h == sz.h_parsed
            px == sz.file
            filled ==
                IF w # NotParsed /\ h # NotParsed THEN Size(w, h)
                ELSE IF px # NoFile
                THEN IF w # NotParsed THEN Size(w, (w * px.px_height) \div px.px_width)
                     ELSE IF h # NotParsed THEN Size((h * px.px_width) \div px.px_height, h)
                     ELSE Size(PxToLunit(px.px_width), PxToLunit(px.px_height))
                ELSE Size(IMAGE_DEFAULT_WIDTH, IMAGE_DEFAULT_HEIGHT)
            scaled == IF filled.width > IMAGE_MAX_WIDTH
                      THEN Size(IMAGE_MAX_WIDTH,
                                IntOfScaled(filled.height, IMAGE_MAX_WIDTH, filled.width))
                      ELSE filled
        IN  /\ sz.size = scaled
            /\ sz.size.width <= IMAGE_MAX_WIDTH
            /\ (w = NotParsed /\ h = NotParsed /\ px = [px_width |-> 2400, px_height |-> 1200]) =>
                   sz.size = Size(IMAGE_MAX_WIDTH, IMAGE_MAX_WIDTH \div 2)

\* what does hold of every image: its width is at most IMAGE_MAX_WIDTH, both
\* attributes are used when both are parsed, and the 2400 x 1200 px file
\* without attributes comes out IMAGE_MAX_WIDTH wide and half as high
WidthWithinMax ==
    sz.pc = "resolved" =>
        /\ sz.size.width <= IMAGE_MAX_WIDTH
        /\ (sz.w_parsed # NotParsed /\ sz.h_parsed # NotParsed
                /\ sz.w_parsed <= IMAGE_MAX_WIDTH) =>
               sz.size = Size(sz.w_parsed, sz.h_parsed)
        /\ (sz.w_parsed = NotParsed /\ sz.h_parsed = NotParsed
                /\ sz.file = [px_width |-> 2400, px_height |-> 1200]) =>
               sz.size = Size(IMAGE_MAX_WIDTH, IMAGE_MAX_WIDTH \div 2)

\* ---------------------------------------------------------------------
\* The ids minted in the header
\* ---------------------------------------------------------------------

\* no two nodes of the collection have the same id
DistinctIds(nodes) ==
    \A i, j \in 1..Len(nodes) : i # j => nodes[i].id # nodes[j].id

\* the nodes after old are appended to it, each with an id above the ids of
\* all the nodes before it
FreshlyAppended(old, new) ==
    /\ Len(new) >= Len(old)
    /\ SubSeq(new, 1, Len(old)) = old
    /\ \A j \in (Len(old) + 1)..Len(new) : \A i \in 1..(j - 1) : new[j].id > new[i].id

\* C28: every id minted (a derived charPr, an aligned, blockquote or list
\* paraPr, a numbering, the table border fill) is above every id its
\* collection held; no collection has two nodes of one id; max_char_pr_id
\* and max_para_pr_id never go down.
C28_FreshIds ==
    /\ [](/\ \A c \in Collections : DistinctIds(header_root[c])
          /\ LET fills == header_root.borderFills
             IN  /\ fills # <<>>
                 /\ fills[Len(fills)].id = registry.table_border_fill_id
                 /\ \A i \in 1..(Len(fills) - 1) : fills[i].id < fills[Len(fills)].id)
    /\ [][/\ \A c \in Collections : FreshlyAppended(header_root[c], header_root'[c])
          /\ registry'.max_char_pr_id >= registry.max_char_pr_id
          /\ registry'.max_para_pr_id >= registry.max_para_pr_id]_vars

\* a charPr, a list paraPr and a numbering have been minted on a header
\* that had a numbering already
C28_Witness ==
    /\ Len(header_root.numberings) >= 2
    /\ \E i \in 1..Len(header_root.paraProperties) :
           /\ header_root.paraProperties[i].headingType = "NUMBER"
           /\ header_root.paraProperties[i].id = registry.max_para_pr_id
    /\ \E i \in 1..Len(header_root.charProperties) :
           /\ header_root.charProperties[i].id = registry.max_char_pr_id
           /\ header_root.charProperties[i].id > 2

\* ---------------------------------------------------------------------
\* The output file: properties
\* ---------------------------------------------------------------------

\* C29: the output file is opened only when the validation, the reading of
\* the template, the construction (the introspection of the template) and
\* the emission of the body are done; a failure in one of them leaves the
\* output path as it was, not created and not changed; only a failure of
\* the writing leaves a partial output.
C29_OutputLast ==
    /\ out.file # out.before => out.done = <<"validate", "read", "construct", "convert">>
                                \/ out.phase = "done"
    /\ out.raised_in \in EarlyPhases => out.file = out.before
    /\ (out.phase = "raised" /\ out.file # out.before) => out.raised_in = "write"

\* the body could not be emitted: the earlier output file is as it was
C29_Witness ==
    /\ out.phase = "raised"
    /\ out.raised_in = "convert"
    /\ out.done = <<"validate", "read", "construct">>
    /\ out.before = EarlierOutputFile
    /\ out.file = EarlierOutputFile

\* the second entry could not be written: the output holds one entry
C29_PartialOutput ==
    /\ out.phase = "raised"
    /\ out.raised_in = "write"
    /\ out.file.content = "new" /\ out.file.entries = 1 /\ out.to_write = 3

\* ---------------------------------------------------------------------
\* Headers in table mode: properties
\* ---------------------------------------------------------------------

\* C30: the table stored with the placeholder is never changed by the
\* emission of a header; the k-th header of the level is emitted from a copy
\* of the table as it was stored, with its own text in the placeholder's
\* place and the numbering of its own counter k.
C30_AsClaimed ==
    /\ thd.table = thd.stored
    /\ \A k \in 1..Len(thd.emitted) :
        LET numbering_text == Strip(thd.stored.numbering)
        IN  /\ thd.emitted[k].placeholder = thd.texts[k]
            /\ thd.emitted[k].numbering =
                   IF numbering_text # <<>>
                   THEN Replace(thd.stored.numbering, numbering_text,
                                FormatCounterText(numbering_text, k))
                   ELSE thd.stored.numbering

\* the stored table is never changed, and every header has the numbering of
\* its own counter
StoredTableKept ==
    /\ thd.table = thd.stored
    /\ \A k \in 1..Len(thd.emitted) :
        LET numbering_text == Strip(thd.stored.numbering)
        IN  thd.emitted[k].numbering =
                IF numbering_text # <<>>
                THEN Replace(thd.stored.numbering, numbering_text,
                             FormatCounterText(numbering_text, k))
                ELSE thd.stored.numbering

====
